---- MODULE Spec2Model ----
(***************************************************************************)
(* Pool hours: the week query (app/api/weekly-hours/route.js), the day     *)
(* aggregator it fans out to (app/api/pool-hours/scraping-utils.js), the   *)
(* day endpoint (app/api/pool-hours/route.js), the view toggle             *)
(* (app/components/ViewToggle.js), the weekly calendar (WeeklyCalendar,    *)
(* DayColumn) and the fetches of CombinedCalendarView and DailyView.       *)
(*                                                                         *)
(* Time is counted in minutes since 2024-01-01T00:00Z, a Monday.  A        *)
(* calendar date "YYYY-MM-DD" is the record [y, m, d]; an ISO-8601 UTC     *)
(* timestamp is the instant it denotes.  JavaScript null is Null.          *)
(***************************************************************************)
EXTENDS Integers, Sequences, FiniteSets, TLC

VARIABLES
    now,             \* moment(): the current instant
    clientTimezone,  \* searchParams.get("timezone")
    weekOffset,      \* parseInt(searchParams.get("weekOffset"))
    importOk,        \* whether import("../pool-hours/scraping-utils.js") resolves
    page,            \* what the upstream page holds: weekday -> rows {time, type}
    failCode,        \* error.code of a failing axios.get in this run
    dayOut,          \* per day: how scrapePoolHoursForDate(dateString) settled
    dayPromises,     \* per day: the settled value of dayPromise, or Null
    response,        \* the HTTP response of the week endpoint, or Null
    dayResult,       \* a single day query: what was called and what it returned
    document,        \* response.data: the blocks of the fetched page, or Null
    currentView,     \* ViewToggle's currentView prop
    focusedButton,   \* ViewToggle's focusedButton state, "" for null
    onViewChangeCalls, \* the arguments of the calls of onViewChange so far
    lastEvent,       \* the last DOM event ViewToggle handled, or Null
    currentTime,     \* the currentTime prop of the calendar components
    sectionData,     \* per section: todayData, thisWeekData, nextWeekData, poolData
    sectionLoading,  \* per section: todayLoading, thisWeekLoading, ..., loading
    sectionError,    \* per section: todayError, thisWeekError, ..., error; "" for null
    inFlight,        \* the fetch() calls that have not settled yet
    issued,          \* how many fetch() calls the components have made
    settled,         \* the fetch() calls that have settled, and how
    mounted,         \* which of CombinedCalendarView and DailyView is on show, or ""
    rendered         \* what the two WeeklyCalendars last rendered, or Null

toggleVars == <<currentView, focusedButton, onViewChangeCalls, lastEvent>>

serverVars == <<now, clientTimezone, weekOffset, importOk, page, failCode,
                dayOut, dayPromises, response, dayResult, document>>

viewVars == <<currentTime, sectionData, sectionLoading, sectionError,
              inFlight, issued, settled, mounted, rendered>>

vars == <<serverVars, toggleVars, viewVars>>

Null == <<>>

\* the three sections of CombinedCalendarView and the one of DailyView
CombinedSections == {"today", "thisWeek", "nextWeek"}
Sections == CombinedSections \cup {"daily"}

\* the useState() initial values of CombinedCalendarView and DailyView, before
\* any effect has run and before the calendars have rendered
ViewNotMounted ==
    /\ currentTime = 0
    /\ sectionData = [s \in Sections |-> Null]
    /\ sectionLoading = [s \in Sections |-> TRUE]
    /\ sectionError = [s \in Sections |-> ""]
    /\ inFlight = {}
    /\ issued = 0
    /\ settled = {}
    /\ mounted = ""
    /\ rendered = Null

\* ViewToggle as first rendered and not yet touched
ToggleIdle ==
    /\ currentView = "daily"
    /\ focusedButton = ""
    /\ onViewChangeCalls = <<>>
    /\ lastEvent = Null

----------------------------------------------------------------------------
(* Bounds *)

MaxWeekOffset == 1
MaxRows == 2
MaxEvents == 3
MaxBlocks == 3
MaxFetches == 6

----------------------------------------------------------------------------
(* Calendar arithmetic as moment / moment-timezone perform it *)

MinutesPerDay == 1440

DayNames ==
    <<"Monday", "Tuesday", "Wednesday", "Thursday", "Friday", "Saturday", "Sunday">>

MonthLen(y, m) ==
    IF m = 2 THEN (IF y % 4 = 0 THEN 29 ELSE 28)
    ELSE IF m \in {4, 6, 9, 11} THEN 30 ELSE 31

YearLen(y) == IF y % 4 = 0 THEN 366 ELSE 365

RECURSIVE CivilFrom(_, _, _)
CivilFrom(y, m, rest) ==
    IF rest >= YearLen(y) /\ m = 1 THEN CivilFrom(y + 1, 1, rest - YearLen(y))
    ELSE IF rest >= MonthLen(y, m) THEN CivilFrom(y, m + 1, rest - MonthLen(y, m))
    ELSE [y |-> y, m |-> m, d |-> rest + 1]

\* format("YYYY-MM-DD") of a day number counted from 2024-01-01
FormatDate(day) == CivilFrom(2024, 1, day)

RECURSIVE DaysBefore(_, _)
DaysBefore(y, m) ==
    IF m > 1 THEN MonthLen(y, m - 1) + DaysBefore(y, m - 1)
    ELSE IF y > 2024 THEN YearLen(y - 1) + DaysBefore(y - 1, 1)
    ELSE 0

\* parsing "YYYY-MM-DD" back into a day number
ParseDate(date) == DaysBefore(date.y, date.m) + date.d - 1

\* format("dddd")
FormatDayName(day) == DayNames[(day % 7) + 1]

\* moment#day(): 0 = Sunday, 1 = Monday, ..., 6 = Saturday
MomentDay(day) == (day + 1) % 7

\* America/Los_Angeles in 2024: PDT from 2024-03-10T10:00Z to 2024-11-03T09:00Z
DstStart == 69 * MinutesPerDay + 600
DstEnd == 307 * MinutesPerDay + 540

\* minutes to add to a UTC instant to get the wall clock of the zone
UtcOffset(tz, instant) ==
    IF tz = "America/Los_Angeles"
    THEN (IF instant >= DstStart /\ instant < DstEnd THEN -420 ELSE -480)
    ELSE IF tz = "Asia/Tokyo" THEN 540
    ELSE 0

\* the wall clock (minutes since 2024-01-01 00:00 local) of an instant
ToLocal(tz, instant) == instant + UtcOffset(tz, instant)

\* variant: the pool's wall clock is read in standard time all year
FromLocal_StandardTime(tz, local) ==
    IF tz = "America/Los_Angeles" THEN local + 480
    ELSE local - UtcOffset(tz, local)

\* moment.tz(<wall clock>, tz): the instant of a wall-clock time.  A zone's
\* period ends, on the wall clock, at its until-instant shifted by the smaller
\* of its own and the previous period's offset: a reading in the hour skipped in
\* spring is moved forward by that hour, a reading in the hour repeated in
\* autumn is taken in daylight time.
FromLocal(tz, local) ==
    IF tz = "America/Los_Angeles"
    THEN (IF local < DstStart - 420 THEN local + 480
          ELSE IF local < DstEnd - 420 THEN local + 420
          ELSE local + 480)
    ELSE local - UtcOffset(tz, local)

FloorDay(minutes) == minutes \div MinutesPerDay

----------------------------------------------------------------------------
(* The upstream page and the transport *)

SiteTimezone == "America/Los_Angeles"

\* a cell text "H:MMam - H:MMpm": the two clock readings the pattern captures
\* and what stands between them, or no match at all
TimeText(h1, m1, ap1, h2, m2, ap2) ==
    [match |-> TRUE, s |-> [h |-> h1, m |-> m1, ap |-> ap1],
                     e |-> [h |-> h2, m |-> m2, ap |-> ap2], sep |-> " - "]

\* a text with a clock reading but no range, such as "7:30am"
NoMatchText ==
    [match |-> FALSE, s |-> [h |-> 0, m |-> 0, ap |-> "am"],
                      e |-> [h |-> 0, m |-> 0, ap |-> "am"], sep |-> ""]

Morning == TimeText(7, 30, "am", 11, 0, "am")
Afternoon == TimeText(1, 0, "pm", 5, 0, "pm")
EarlyLap == TimeText(7, 30, "am", 9, 0, "am")

Row(text, type) == [time |-> text, type |-> type]

\* a page without schedule tables
PageEmpty == [d \in {DayNames[k] : k \in 1..7} |-> <<>>]

\* a page whose tables list the rows of some weekdays, not in time order
PageFull ==
    [d \in {DayNames[k] : k \in 1..7} |->
        IF d = "Monday" THEN <<Row(Afternoon, "rec"), Row(Morning, "lap")>>
        ELSE IF d = "Wednesday" THEN <<Row(Morning, "lap"), Row(NoMatchText, "lap")>>
        ELSE IF d = "Sunday" THEN <<Row(Morning, "rec"), Row(EarlyLap, "lap")>>
        ELSE <<>>]

ErrorCodes == {"ECONNREFUSED", "ENOTFOUND", "ETIMEDOUT", "ERR_BAD_RESPONSE"}

\* axios.get(url, ...): the page, or an error with a code and a message
FetchOk(data) == [ok |-> TRUE, data |-> data, code |-> "", message |-> ""]
FetchFailed(code) ==
    [ok |-> FALSE, data |-> PageEmpty, code |-> code,
     message |-> IF code = "ECONNREFUSED" THEN "connect ECONNREFUSED"
                 ELSE IF code = "ENOTFOUND" THEN "getaddrinfo ENOTFOUND"
                 ELSE IF code = "ETIMEDOUT" THEN "timeout of 10000ms exceeded"
                 ELSE "Request failed with status code 503"]

----------------------------------------------------------------------------
(* app/api/pool-hours/scraping-utils.js *)

\* variant: 12 AM is left at hour 12
To24Hour_MidnightIsTwelve(t) ==
    [hh |-> IF t.ap = "pm" /\ t.h # 12 THEN t.h + 12 ELSE t.h,
     mm |-> t.m]

\* moment.tz(text, 'h:mma', ...).format('HH:mm')
To24Hour(t) ==
    [hh |-> IF t.ap = "pm" THEN (IF t.h = 12 THEN 12 ELSE t.h + 12)
            ELSE (IF t.h = 12 THEN 0 ELSE t.h),
     mm |-> t.m]

parseTimeRange(timeRange) ==
    IF ~timeRange.match THEN Null
    ELSE [startTime |-> To24Hour(timeRange.s), endTime |-> To24Hour(timeRange.e)]

\* moment.tz(date + ' ' + time, 'YYYY-MM-DD HH:mm', 'America/Los_Angeles')
\*   .utc().toISOString()
SiteInstant(date, time) ==
    FromLocal(SiteTimezone, ParseDate(date) * MinutesPerDay + time.hh * 60 + time.mm)

RECURSIVE InsertByStart(_, _)
InsertByStart(sorted, x) ==
    IF sorted = <<>> THEN <<x>>
    ELSE IF sorted[Len(sorted)].start <= x.start THEN Append(sorted, x)
    ELSE Append(InsertByStart(SubSeq(sorted, 1, Len(sorted) - 1), x),
                sorted[Len(sorted)])

\* Array.prototype.sort((a, b) => new Date(a.start) - new Date(b.start)): stable
RECURSIVE SortByStart(_)
SortByStart(hours) ==
    IF hours = <<>> THEN <<>>
    ELSE InsertByStart(SortByStart(SubSeq(hours, 1, Len(hours) - 1)),
                       hours[Len(hours)])

\* variant: an end that is not after the start is taken on the following day
RECURSIVE TimestampRows_Rollover(_, _)
TimestampRows_Rollover(rows, date) ==
    IF rows = <<>> THEN <<>>
    ELSE LET session == rows[1]
             timeRange == parseTimeRange(session.time)
             rest == TimestampRows_Rollover(SubSeq(rows, 2, Len(rows)), date)
             start == SiteInstant(date, timeRange.startTime)
             end == SiteInstant(date, timeRange.endTime)
         IN  IF timeRange = Null THEN rest
             ELSE <<[start |-> start,
                     end |-> IF end <= start THEN end + MinutesPerDay ELSE end,
                     timezone |-> "GMT",
                     original |-> session.time,
                     type |-> session.type]>> \o rest

\* the forEach of scrapePoolHours: rows that parse become timestamped hours
RECURSIVE TimestampRows(_, _)
TimestampRows(rows, date) ==
    IF rows = <<>> THEN <<>>
    ELSE LET session == rows[1]
             timeRange == parseTimeRange(session.time)
             rest == TimestampRows(SubSeq(rows, 2, Len(rows)), date)
         IN  IF timeRange = Null THEN rest
             ELSE <<[start |-> SiteInstant(date, timeRange.startTime),
                     end |-> SiteInstant(date, timeRange.endTime),
                     timezone |-> "GMT",
                     original |-> session.time,
                     type |-> session.type]>> \o rest

\* variant: the host-not-found branch repeats the connection-refused text
TransportErrorMessage_CopiedText(fetch) ==
    IF fetch.code = "ECONNREFUSED" \/ fetch.code = "ENOTFOUND"
    THEN <<"Unable to connect to the pool website. Please check your internet connection.">>
    ELSE IF fetch.code = "ETIMEDOUT"
    THEN <<"Request timed out. The pool website is taking too long to respond.">>
    ELSE <<"Failed to retrieve pool hours: ", fetch.message>>

TransportErrorMessage(fetch) ==
    IF fetch.code = "ECONNREFUSED"
    THEN <<"Unable to connect to the pool website. Please check your internet connection.">>
    ELSE IF fetch.code = "ENOTFOUND"
    THEN <<"Pool website not found. The website may be temporarily unavailable.">>
    ELSE IF fetch.code = "ETIMEDOUT"
    THEN <<"Request timed out. The pool website is taking too long to respond.">>
    ELSE <<"Failed to retrieve pool hours: ", fetch.message>>

\* scrapePoolHours(clientDate) when axios.get settles as fetch at instant t
scrapePoolHours(clientDate, fetch, t) ==
    IF fetch.ok
    THEN LET targetDay == IF clientDate # Null THEN ParseDate(clientDate)
                          ELSE FloorDay(ToLocal(SiteTimezone, t))
             targetDayName == FormatDayName(targetDay)
             \* allPoolHours[targetDayName] || []
             targetDayHours == IF targetDayName \in DOMAIN fetch.data
                               THEN fetch.data[targetDayName] ELSE <<>>
             timestampedHours == TimestampRows(targetDayHours, FormatDate(targetDay))
         IN  [hours |-> SortByStart(timestampedHours),
              error |-> Null,
              timestamp |-> t,
              date |-> FormatDate(targetDay),
              dayName |-> targetDayName]
    ELSE [hours |-> <<>>,
          error |-> TransportErrorMessage(fetch),
          timestamp |-> t,
          date |-> Null,
          dayName |-> Null]

----------------------------------------------------------------------------
(* app/api/pool-hours/route.js *)

RECURSIVE TimesOfType(_, _)
TimesOfType(rows, type) ==
    IF rows = <<>> THEN <<>>
    ELSE (IF rows[1].type = type THEN <<rows[1].time>> ELSE <<>>)
         \o TimesOfType(SubSeq(rows, 2, Len(rows)), type)

\* the time strings of the lap swim table, per weekday
parseLapSwimHours(doc) == [d \in DOMAIN doc |-> TimesOfType(doc[d], "lap")]

\* the time strings of the recreational swim table, per weekday
parseRecSwimHours(doc) == [d \in DOMAIN doc |-> TimesOfType(doc[d], "rec")]

RECURSIVE convertToTimestamps(_, _, _)
convertToTimestamps(timeStrings, type, t) ==
    IF timeStrings = <<>> THEN <<>>
    ELSE LET today == FormatDate(FloorDay(ToLocal(SiteTimezone, t)))
             timeRange == parseTimeRange(timeStrings[1])
             rest == convertToTimestamps(SubSeq(timeStrings, 2, Len(timeStrings)), type, t)
         IN  IF timeRange = Null THEN rest
             ELSE <<[start |-> SiteInstant(today, timeRange.startTime),
                     end |-> SiteInstant(today, timeRange.endTime),
                     timezone |-> SiteTimezone,
                     original |-> timeStrings[1],
                     type |-> type]>> \o rest

checkIfOpenNow(timestampedHours, t) ==
    LET currentDay == FormatDayName(FloorDay(ToLocal(SiteTimezone, t)))
        todaySlots ==
            {k \in 1..Len(timestampedHours) :
                FormatDayName(FloorDay(ToLocal(SiteTimezone, timestampedHours[k].start)))
                    = currentDay}
    IN  \E k \in todaySlots :
            timestampedHours[k].start <= t /\ t <= timestampedHours[k].end

\* moment#format('h:mm') and moment#format('a') of a wall clock
ClockReading(local) ==
    LET hh == (local % MinutesPerDay) \div 60
    IN  [h |-> ((hh + 11) % 12) + 1,
         m |-> local % 60,
         ap |-> IF hh < 12 THEN "am" ELSE "pm"]

\* `${startHour}${startAmPm}-${endHour}${endAmPm}`
formatTimeRange(start, end) ==
    [match |-> TRUE,
     s |-> ClockReading(ToLocal(SiteTimezone, start)),
     e |-> ClockReading(ToLocal(SiteTimezone, end)),
     sep |-> "-"]

RECURSIVE FormatSpans(_, _)
FormatSpans(spans, type) ==
    IF spans = <<>> THEN <<>>
    ELSE (IF spans[1].type = type
          THEN <<formatTimeRange(spans[1].start, spans[1].end)>> ELSE <<>>)
         \o FormatSpans(SubSeq(spans, 2, Len(spans)), type)

\* the status word and the rendered lap and rec ranges that the prettified
\* string joins
createPrettifiedHoursStringFromSpans(timestampedHours, isOpenNow) ==
    IF timestampedHours = <<>>
    THEN [status |-> "[Closed] No hours available today", lap |-> <<>>, rec |-> <<>>]
    ELSE [status |-> IF isOpenNow THEN "[Open]" ELSE "[Closed]",
          lap |-> FormatSpans(timestampedHours, "lap"),
          rec |-> FormatSpans(timestampedHours, "rec")]

\* the prettified text of the catch branches
PrettifiedFailure(fetch) ==
    [status |-> IF fetch.code = "ECONNREFUSED" THEN "Unable to connect to pool website"
                ELSE IF fetch.code = "ENOTFOUND" THEN "Pool website temporarily unavailable"
                ELSE IF fetch.code = "ETIMEDOUT"
                THEN "Close - Pool website is taking too long to respond"
                ELSE "Close - Unable to retrieve pool hours",
     lap |-> <<>>, rec |-> <<>>]

\* the day endpoint's own scrapePoolHours(), axios.get settling as fetch at t
RouteScrapePoolHours(fetch, t) ==
    IF fetch.ok
    THEN LET today == FormatDayName(FloorDay(ToLocal(SiteTimezone, t)))
             lapSwimHours == parseLapSwimHours(fetch.data)
             recSwimHours == parseRecSwimHours(fetch.data)
             todayLapSwim == IF today \in DOMAIN lapSwimHours
                             THEN lapSwimHours[today] ELSE <<>>
             todayRecSwim == IF today \in DOMAIN recSwimHours
                             THEN recSwimHours[today] ELSE <<>>
             timestampedHours == convertToTimestamps(todayLapSwim, "lap", t)
                                 \o convertToTimestamps(todayRecSwim, "rec", t)
             isOpenNow == checkIfOpenNow(timestampedHours, t)
         IN  [hours |-> timestampedHours,
              prettified |->
                  createPrettifiedHoursStringFromSpans(timestampedHours, isOpenNow),
              isOpenNow |-> isOpenNow,
              error |-> Null,
              timestamp |-> t]
    ELSE [hours |-> <<>>,
          prettified |-> PrettifiedFailure(fetch),
          isOpenNow |-> FALSE,
          error |-> TransportErrorMessage(fetch),
          timestamp |-> t]

\* variant: a result that carries an error is answered with status 500
PoolHoursGET_ErrorStatus(fetch, t) ==
    [status |-> IF RouteScrapePoolHours(fetch, t).error # Null THEN 500 ELSE 200,
     body |-> RouteScrapePoolHours(fetch, t)]

\* GET of /api/pool-hours: scrapePoolHours() never rejects, so the catch
\* branch that answers 500 is never taken
PoolHoursGET(fetch, t) == [status |-> 200, body |-> RouteScrapePoolHours(fetch, t)]

----------------------------------------------------------------------------
(* app/api/weekly-hours/route.js *)

DaysPerWeek == 7
DayIndexes == 0..(DaysPerWeek - 1)

getWeekBoundaries(offset, tz, t) ==
    LET nowLocal == ToLocal(tz, t)
        currentDayOfWeek == MomentDay(FloorDay(nowLocal))
        daysToMonday == IF currentDayOfWeek = 0 THEN -6 ELSE -(currentDayOfWeek - 1)
        \* add(weekOffset, "weeks").add(daysToMonday, "days").startOf("day").utc()
        startLocalDay == FloorDay(nowLocal) + 7 * offset + daysToMonday
        weekStart == FromLocal(tz, startLocalDay * MinutesPerDay)
        \* weekStart.clone().add(6, "days").endOf("day"), in UTC mode
        weekEnd == (FloorDay(weekStart) + 6) * MinutesPerDay + (MinutesPerDay - 1)
    IN  [weekStart |-> weekStart, weekEnd |-> weekEnd]

\* weekStart.clone().add(i, "days"), a moment in UTC mode
CurrentDay(i) ==
    getWeekBoundaries(weekOffset, clientTimezone, now).weekStart + i * MinutesPerDay

\* currentDay.format("YYYY-MM-DD")
DateString(i) == FormatDate(FloorDay(CurrentDay(i)))

\* currentDay.tz(clientTimezone).isSame(moment().tz(clientTimezone), "day")
IsToday(i) ==
    FloorDay(ToLocal(clientTimezone, CurrentDay(i)))
        = FloorDay(ToLocal(clientTimezone, now))

\* how a promise settled; net is what the network did for it and http the
\* answer of the day endpoint when it was called
Fulfilled(value, net, http) ==
    [settled |-> "fulfilled", value |-> value, net |-> net, http |-> http]
Rejected(message, net, http) ==
    [settled |-> "rejected", value |-> message, net |-> net, http |-> http]

\* what the network does for one day: the page arrives, the page fetch fails with
\* failCode, or (import failed) the call of the day endpoint itself fails
NetOutcomes == IF importOk THEN {"page", "failed"} ELSE {"page", "failed", "unreachable"}

\* scrapePoolHoursForDate(dateString): the imported scrapePoolHours, or, when the
\* import fails, the day endpoint called over HTTP
scrapePoolHoursForDate(dateString, net) ==
    LET fetch == IF net = "page" THEN FetchOk(page) ELSE FetchFailed(failCode)
        apiResponse == PoolHoursGET(fetch, now)
        Unable(cause) == <<"Unable to fetch pool hours for ", dateString, ": ", cause>>
    IN  IF importOk THEN Fulfilled(scrapePoolHours(dateString, fetch, now), net, Null)
        ELSE IF net = "unreachable" THEN Rejected(Unable(<<"fetch failed">>), net, Null)
        ELSE IF apiResponse.status \notin 200..299
        THEN Rejected(Unable(<<"HTTP ", apiResponse.status>>), net, apiResponse)
        ELSE Fulfilled(apiResponse.body, net, apiResponse)

\* variant: dayName is formatted after currentDay.tz(clientTimezone) has moved the
\* moment into the client timezone
ThenEntry_LocalDayName(i, dayData) ==
    [date |-> DateString(i),
     dayName |-> FormatDayName(FloorDay(ToLocal(clientTimezone, CurrentDay(i)))),
     hours |-> dayData.hours,
     error |-> dayData.error,
     isToday |-> IsToday(i)]

\* the .then callback of dayPromise
ThenEntry(i, dayData) ==
    [date |-> DateString(i),
     dayName |-> FormatDayName(FloorDay(CurrentDay(i))),
     hours |-> dayData.hours,
     error |-> dayData.error,
     isToday |-> IsToday(i)]

\* the .catch callback of dayPromise
CatchEntry(i, message) ==
    [date |-> DateString(i),
     dayName |-> FormatDayName(FloorDay(CurrentDay(i))),
     hours |-> <<>>,
     error |-> <<"Failed to fetch data for ", DateString(i), ": ", message>>,
     isToday |-> IsToday(i)]

\* dayPromise = scrapePoolHoursForDate(...).then(...).catch(...)
DayPromise(i, outcome) ==
    IF outcome.settled = "fulfilled" THEN ThenEntry(i, outcome.value)
    ELSE CatchEntry(i, outcome.value)

AllFailedMessage == <<"Failed to fetch data for all days of the week">>
NoDataMessage == <<"No pool hours data available for this week">>

\* variant: hasAllErrors computed with some() instead of every()
WeekError_SomeError(weekData) ==
    LET hasAnyData == \E i \in DOMAIN weekData : Len(weekData[i].hours) > 0
        hasAllErrors == \E i \in DOMAIN weekData : weekData[i].error # Null
    IN  IF hasAllErrors THEN AllFailedMessage
        ELSE IF ~hasAnyData THEN NoDataMessage
        ELSE Null

\* variant: the "no data" message is kept for weeks in which no day failed
WeekError_NoDataWithoutFailures(weekData) ==
    LET hasAnyData == \E i \in DOMAIN weekData : Len(weekData[i].hours) > 0
        hasAllErrors == \A i \in DOMAIN weekData : weekData[i].error # Null
        hasAnyError == \E i \in DOMAIN weekData : weekData[i].error # Null
    IN  IF hasAllErrors THEN AllFailedMessage
        ELSE IF ~hasAnyData /\ ~hasAnyError THEN NoDataMessage
        ELSE Null

WeekError(weekData) ==
    LET hasAnyData == \E i \in DOMAIN weekData : Len(weekData[i].hours) > 0
        hasAllErrors == \A i \in DOMAIN weekData : weekData[i].error # Null
    IN  IF hasAllErrors THEN AllFailedMessage
        ELSE IF ~hasAnyData THEN NoDataMessage
        ELSE Null

\* variant: one failed day empties the hours of the whole week
aggregateWeeklyPoolHours_FailFast(weekData) ==
    LET bounds == getWeekBoundaries(weekOffset, clientTimezone, now)
        anyError == \E i \in DOMAIN weekData : weekData[i].error # Null
    IN  [weekData |-> [i \in DOMAIN weekData |->
                          [weekData[i] EXCEPT !.hours = IF anyError THEN <<>> ELSE @]],
         weekStartDate |-> FormatDate(FloorDay(bounds.weekStart)),
         weekEndDate |-> FormatDate(FloorDay(bounds.weekEnd)),
         weekOffset |-> weekOffset,
         error |-> WeekError(weekData),
         timestamp |-> now]

\* what aggregateWeeklyPoolHours returns once Promise.all has resolved
aggregateWeeklyPoolHours(weekData) ==
    LET bounds == getWeekBoundaries(weekOffset, clientTimezone, now)
    IN  [weekData |-> weekData,
         weekStartDate |-> FormatDate(FloorDay(bounds.weekStart)),
         weekEndDate |-> FormatDate(FloorDay(bounds.weekEnd)),
         weekOffset |-> weekOffset,
         error |-> WeekError(weekData),
         timestamp |-> now]

----------------------------------------------------------------------------
(* The week query as a state machine *)

\* 2024-01-17T20:00Z (Wednesday noon at the pool, Thursday morning in Tokyo) and
\* 2024-01-22T07:00Z (Sunday night at the pool, Monday afternoon in Tokyo)
NowInstants == {16 * MinutesPerDay + 1200, 21 * MinutesPerDay + 420}

ClientTimezones == {"America/Los_Angeles", "Asia/Tokyo"}

\* the deployments and upstream conditions a week query runs against
Environments ==
    {[importOk |-> TRUE, page |-> PageFull, failCode |-> "ECONNREFUSED"],
     [importOk |-> TRUE, page |-> PageEmpty, failCode |-> "ETIMEDOUT"],
     [importOk |-> FALSE, page |-> PageFull, failCode |-> "ENOTFOUND"]}

Init ==
    /\ ViewNotMounted
    /\ now \in NowInstants
    /\ clientTimezone \in ClientTimezones
    /\ weekOffset \in 0..MaxWeekOffset
    /\ \E e \in Environments :
          importOk = e.importOk /\ page = e.page /\ failCode = e.failCode
    /\ dayOut = [i \in DayIndexes |-> Null]
    /\ dayPromises = [i \in DayIndexes |-> Null]
    /\ response = Null
    /\ dayResult = Null
    /\ document = Null
    /\ ToggleIdle

\* the scrape of day i settles and its .then or .catch callback runs
DayComplete(i) ==
    /\ response = Null
    /\ dayOut[i] = Null
    /\ \E net \in NetOutcomes :
          LET outcome == scrapePoolHoursForDate(DateString(i), net)
          IN  /\ dayOut' = [dayOut EXCEPT ![i] = outcome]
              /\ dayPromises' = [dayPromises EXCEPT ![i] = DayPromise(i, outcome)]
    /\ UNCHANGED <<now, clientTimezone, weekOffset, importOk, page, failCode,
                   response, dayResult, document, toggleVars, viewVars>>

\* variant: the join is Promise.race-like and answers with the days settled so far
WeeklyGET_FirstSettled ==
    /\ response = Null
    /\ \E i \in DayIndexes : dayPromises[i] # Null
    /\ response' = [status |-> 200,
                    body |-> aggregateWeeklyPoolHours(
                                SelectSeq([k \in 1..DaysPerWeek |-> dayPromises[k - 1]],
                                          LAMBDA e : e # Null))]
    /\ UNCHANGED <<now, clientTimezone, weekOffset, importOk, page, failCode,
                   dayOut, dayPromises, dayResult, document, toggleVars, viewVars>>

\* Promise.all(dayPromises) resolves; GET answers with the week result
WeeklyGET ==
    /\ response = Null
    /\ \A i \in DayIndexes : dayPromises[i] # Null
    /\ response' = [status |-> 200,
                    body |-> aggregateWeeklyPoolHours(
                                [k \in 1..DaysPerWeek |-> dayPromises[k - 1]])]
    /\ UNCHANGED <<now, clientTimezone, weekOffset, importOk, page, failCode,
                   dayOut, dayPromises, dayResult, document, toggleVars, viewVars>>

Next ==
    \/ \E i \in DayIndexes : DayComplete(i)
    \/ WeeklyGET

Spec == Init /\ [][Next]_vars

----------------------------------------------------------------------------
(* A single day query as a state machine *)

RowSamples ==
    {Row(Morning, "lap"), Row(Morning, "rec"), Row(EarlyLap, "lap"),
     Row(Afternoon, "lap"), Row(Afternoon, "rec"), Row(NoMatchText, "lap")}

RECURSIVE RowLists(_)
RowLists(n) ==
    IF n = 0 THEN {<<>>}
    ELSE RowLists(n - 1)
         \cup {Append(rows, r) : rows \in {l \in RowLists(n - 1) : Len(l) = n - 1},
                                 r \in RowSamples}

\* pages whose tables list the same rows for every weekday
DayPages == {[d \in {DayNames[k] : k \in 1..7} |-> rows] : rows \in RowLists(MaxRows)}

\* the dates a caller asks for: none (today), a winter date, a summer date and
\* the date on which the pool's clocks skip from 2:00am to 3:00am
ClientDates ==
    {Null, [y |-> 2024, m |-> 1, d |-> 15], [y |-> 2024, m |-> 7, d |-> 15],
     [y |-> 2024, m |-> 3, d |-> 10]}

InitDay ==
    /\ ViewNotMounted
    /\ now \in NowInstants
    /\ clientTimezone = SiteTimezone
    /\ weekOffset = 0
    /\ importOk = TRUE
    /\ page \in DayPages
    /\ failCode \in ErrorCodes
    /\ dayOut = [i \in DayIndexes |-> Null]
    /\ dayPromises = [i \in DayIndexes |-> Null]
    /\ response = Null
    /\ dayResult = Null
    /\ document = Null
    /\ ToggleIdle

\* a call of scraping-utils' scrapePoolHours(clientDate) runs to its return
ScrapeDay ==
    /\ dayResult = Null
    /\ \E clientDate \in ClientDates, upstreamOk \in BOOLEAN :
          LET fetch == IF upstreamOk THEN FetchOk(page) ELSE FetchFailed(failCode)
          IN  dayResult' = [op |-> "scrapePoolHours", clientDate |-> clientDate,
                            query |-> Null, fetched |-> upstreamOk, status |-> 0,
                            result |-> scrapePoolHours(clientDate, fetch, now)]
    /\ UNCHANGED <<now, clientTimezone, weekOffset, importOk, page, failCode,
                   dayOut, dayPromises, response, document, toggleVars, viewVars>>

\* a GET of /api/pool-hours?date=<query> is answered; GET() takes no request,
\* so the query never reaches scrapePoolHours()
DayGET ==
    /\ dayResult = Null
    /\ \E query \in ClientDates, upstreamOk \in BOOLEAN :
          LET fetch == IF upstreamOk THEN FetchOk(page) ELSE FetchFailed(failCode)
              answer == PoolHoursGET(fetch, now)
          IN  dayResult' = [op |-> "GET", clientDate |-> Null,
                            query |-> query, fetched |-> upstreamOk, status |-> answer.status,
                            result |-> answer.body]
    /\ UNCHANGED <<now, clientTimezone, weekOffset, importOk, page, failCode,
                   dayOut, dayPromises, response, document, toggleVars, viewVars>>

NextDay ==
    \/ ScrapeDay
    \/ DayGET

SpecDay == InitDay /\ [][NextDay]_vars

----------------------------------------------------------------------------
(* Properties of the week query, checked under Spec *)

Answered == response # Null
WeekData == response.body.weekData
AllSettled == \A i \in DayIndexes : dayOut[i] # Null
DayFailed(entry) == entry.error # Null
AllDaysFailed == \A k \in 1..Len(WeekData) : DayFailed(WeekData[k])
SomeDayFailed == \E k \in 1..Len(WeekData) : DayFailed(WeekData[k])
AllDaysEmpty == \A k \in 1..Len(WeekData) : Len(WeekData[k].hours) = 0

\* the weekday of a calendar date, 0 = Monday, from the calendar alone
WeekdayOf(date) == ParseDate(date) % 7

\* C1: whatever the week offset and the client timezone, the week result has
\* exactly 7 day entries, the first dated on a Monday and the last on the Sunday
\* six days later.
C1_SevenDaysMondayToSunday ==
    Answered =>
        /\ Len(WeekData) = 7
        /\ WeekdayOf(WeekData[1].date) = 0
        /\ WeekdayOf(WeekData[7].date) = 6
        /\ ParseDate(WeekData[7].date) = ParseDate(WeekData[1].date) + 6

\* C2: once the week is answered, the week error is the "all days failed" message
\* exactly when every one of the seven day entries carries an error; when all
\* seven page fetches failed in transport, the week error is that message and
\* every day's error is populated.
C2_AllFailedIffEveryDayFailed ==
    Answered =>
        /\ (response.body.error = AllFailedMessage) <=> AllDaysFailed
        /\ (\A i \in DayIndexes : dayOut[i].net = "failed")
              => /\ response.body.error = AllFailedMessage
                 /\ \A k \in 1..7 : WeekData[k].error # Null

C2_Witness ==
    /\ Answered
    /\ \A i \in DayIndexes : dayOut[i].net = "failed"
    /\ response.body.error = AllFailedMessage

\* C3 as stated: the "no data" message appears only when no day failed and all
\* seven days are empty, and in every other case where not all days failed the
\* week error is absent.
C3_NoDataOnlyWithoutFailures ==
    Answered =>
        /\ (response.body.error = NoDataMessage) => (~SomeDayFailed /\ AllDaysEmpty)
        /\ (~AllDaysFailed /\ ~(~SomeDayFailed /\ AllDaysEmpty))
              => response.body.error = Null

\* C3 as amended: the week error is the "no data" message exactly when not every
\* day failed and all seven days produced zero sessions, whether or not some of
\* them failed; when some day produced a session the week error is absent even
\* if other days failed.
C3_NoDataIffNotAllFailedAndEmpty ==
    Answered =>
        /\ (response.body.error = NoDataMessage) <=> (~AllDaysFailed /\ AllDaysEmpty)
        /\ ~AllDaysEmpty => response.body.error = Null

C3_Witness ==
    /\ Answered
    /\ SomeDayFailed
    /\ ~AllDaysFailed
    /\ AllDaysEmpty
    /\ response.body.error = NoDataMessage

\* the hours and the error an entry must carry given how its own day settled
EntryCarries(entry, outcome) ==
    IF outcome.settled = "fulfilled"
    THEN entry.hours = outcome.value.hours /\ entry.error = outcome.value.error
    ELSE /\ entry.hours = <<>>
         /\ Len(entry.error) = 4
         /\ entry.error[4] = outcome.value

\* C4: a day that failed, by an error result or by a thrown exception, changes no
\* other day's entry: every settled entry, and every entry of the week result,
\* carries exactly the hours and the error its own day operation produced.
C4_DaysAreIndependent ==
    /\ \A i \in DayIndexes :
          /\ (dayPromises[i] = Null) <=> (dayOut[i] = Null)
          /\ dayPromises[i] # Null => EntryCarries(dayPromises[i], dayOut[i])
    /\ Answered =>
          /\ Len(WeekData) = 7
          /\ \A i \in DayIndexes : EntryCarries(WeekData[i + 1], dayOut[i])

C4_Witness ==
    /\ Answered
    /\ \E i, j, k \in DayIndexes :
          /\ dayOut[i].settled = "rejected"
          /\ dayOut[j].settled = "fulfilled" /\ dayOut[j].value.error # Null
          /\ dayOut[k].settled = "fulfilled" /\ Len(WeekData[k + 1].hours) > 0

\* C5: the week is answered only after all seven day operations have settled,
\* and once all seven have settled, by success or by failure, the answer that
\* can be given is a week result with seven entries, never an exception.
C5_JoinAllThenResult ==
    /\ Answered =>
          /\ AllSettled
          /\ response.status = 200
          /\ Len(WeekData) = 7
    /\ (AllSettled /\ ~Answered) => ENABLED WeeklyGET

C5_Witness ==
    /\ Answered
    /\ \E i, j \in DayIndexes :
          dayOut[i].settled = "rejected" /\ dayOut[j].settled = "fulfilled"

\* C6: for every i from 0 to 6 the i-th entry of the week result is dated week
\* start plus i days and named after that date's weekday, in whatever order the
\* seven day operations settled.
C6_EntriesFollowWeekStart ==
    Answered =>
        \A i \in DayIndexes :
            /\ ParseDate(WeekData[i + 1].date)
                  = ParseDate(response.body.weekStartDate) + i
            /\ WeekData[i + 1].dayName = DayNames[WeekdayOf(WeekData[i + 1].date) + 1]

C6_Witness ==
    /\ Answered
    /\ weekOffset = 1
    /\ clientTimezone = "Asia/Tokyo"
    /\ SomeDayFailed
    /\ ~AllDaysEmpty

\* today's calendar day in the client timezone, and the Monday of its week
TodayInClientTimezone == FloorDay(ToLocal(clientTimezone, now))
MondayOfThisWeek == TodayInClientTimezone - (TodayInClientTimezone % 7)

\* C7: the week start date is the Monday of the week that holds today's date in
\* the client timezone, moved by 7 * weekOffset days, and the week end date is
\* six days later; weekOffset 0 on Wednesday 2024-01-17 gives 2024-01-15 and
\* 2024-01-21.
C7_WeekStartsOnClientMonday ==
    Answered =>
        /\ ParseDate(response.body.weekStartDate) = MondayOfThisWeek + 7 * weekOffset
        /\ ParseDate(response.body.weekEndDate)
              = ParseDate(response.body.weekStartDate) + 6
        /\ (weekOffset = 0
            /\ FormatDate(TodayInClientTimezone) = [y |-> 2024, m |-> 1, d |-> 17])
              => /\ response.body.weekStartDate = [y |-> 2024, m |-> 1, d |-> 15]
                 /\ response.body.weekEndDate = [y |-> 2024, m |-> 1, d |-> 21]

\* the answers of the day endpoint seen by the week query of this run
DayEndpointAnswers == {dayOut[i] : i \in {j \in DayIndexes : dayOut[j] # Null /\ dayOut[j].http # Null}}

\* C8 as stated: each endpoint answers with an HTTP error status and an error
\* body when the request fails totally (the upstream page cannot be fetched),
\* and the week endpoint answers with HTTP success when only some days failed.
C8_ErrorStatusOnTotalFailure ==
    /\ \A a \in DayEndpointAnswers :
          a.net = "failed" => (a.http.status >= 400 /\ a.http.body.error # Null)
    /\ Answered =>
          IF AllDaysFailed
          THEN response.status >= 400 /\ response.body.error # Null
          ELSE response.status = 200

\* C8 as amended: when the upstream page cannot be fetched, each endpoint answers
\* with HTTP success and a body whose error field is set (for the week endpoint:
\* the week error and every day's error); the week endpoint also answers with
\* HTTP success when only some days failed.
C8_SuccessStatusWithErrorBody ==
    /\ \A a \in DayEndpointAnswers :
          /\ a.http.status = 200
          /\ a.net = "failed" => (a.http.body.error # Null /\ a.http.body.hours = <<>>)
    /\ Answered =>
          /\ response.status = 200
          /\ AllDaysFailed => /\ response.body.error # Null
                              /\ \A k \in 1..7 : WeekData[k].error # Null

C8_Witness ==
    /\ Answered
    /\ AllDaysFailed
    /\ \E a \in DayEndpointAnswers : a.net = "failed"
    /\ response.status = 200

----------------------------------------------------------------------------
(* Properties of a single day query, checked under SpecDay *)

DayAnswered == dayResult # Null

NamedTransportCodes == {"ECONNREFUSED", "ENOTFOUND", "ETIMEDOUT"}

\* C9: when the page fetch fails, the day aggregator returns a result with no
\* sessions and a non-null error (it returns, it does not throw), and the errors
\* for connection refused, host not found and timeout are pairwise different.
C9_TransportFailureIsAResult ==
    (DayAnswered /\ ~dayResult.fetched) =>
        /\ dayResult.result.hours = <<>>
        /\ dayResult.result.error # Null
        /\ failCode \in NamedTransportCodes =>
              \A other \in NamedTransportCodes \ {failCode} :
                  dayResult.result.error # TransportErrorMessage(FetchFailed(other))

C9_Witness ==
    /\ DayAnswered
    /\ dayResult.op = "scrapePoolHours"
    /\ ~dayResult.fetched
    /\ failCode = "ENOTFOUND"
    /\ dayResult.result.error # Null

\* the rows the page lists for the weekday the day query is about
TargetRows ==
    LET targetDay == IF dayResult.clientDate # Null THEN ParseDate(dayResult.clientDate)
                     ELSE FloorDay(ToLocal(SiteTimezone, now))
    IN  page[DayNames[(targetDay % 7) + 1]]

RECURSIVE RowTextsStartingAt(_, _)
RowTextsStartingAt(rows, reading) ==
    IF rows = <<>> THEN <<>>
    ELSE (IF rows[1].time.match /\ rows[1].time.s = reading
          THEN <<rows[1].time>> ELSE <<>>)
         \o RowTextsStartingAt(SubSeq(rows, 2, Len(rows)), reading)

RECURSIVE SessionTextsStartingAt(_, _)
SessionTextsStartingAt(hours, reading) ==
    IF hours = <<>> THEN <<>>
    ELSE (IF hours[1].original.s = reading THEN <<hours[1].original>> ELSE <<>>)
         \o SessionTextsStartingAt(SubSeq(hours, 2, Len(hours)), reading)

\* C10: the sessions of every day result are in ascending order of start time,
\* and sessions that start at the same time stand in the order of their table
\* rows.
C10_SessionsAscendingAndStable ==
    DayAnswered =>
        LET hours == dayResult.result.hours
        IN  /\ \A a, b \in 1..Len(hours) :
                  a < b => hours[a].start <= hours[b].start
            /\ \A k \in 1..Len(hours) :
                  SessionTextsStartingAt(hours, hours[k].original.s)
                      = RowTextsStartingAt(TargetRows, hours[k].original.s)

----------------------------------------------------------------------------
(* dateUtils: pstToUtc *)

\* the 24-hour clock pstToUtc sets on the date, or Null where it throws
pstToUtcClock(t) ==
    IF t.h < 1 \/ t.h > 12 \/ t.m < 0 \/ t.m > 59 THEN Null
    ELSE [hh |-> IF t.ap = "pm" /\ t.h # 12 THEN t.h + 12
                 ELSE IF t.ap = "am" /\ t.h = 12 THEN 0
                 ELSE t.h,
          mm |-> t.m]

----------------------------------------------------------------------------
(* The time normalizer as a state machine: one time-range text on the page *)

MinuteSamples == {0, 30}

ClockReadings ==
    {[h |-> h, m |-> m, ap |-> ap] : h \in 1..12, m \in MinuteSamples, ap \in {"am", "pm"}}

TimeTexts ==
    {TimeText(s.h, s.m, s.ap, e.h, e.m, e.ap) : s \in ClockReadings, e \in ClockReadings}

\* pages that list one lap row with the same text for every weekday
TimePages ==
    {[d \in {DayNames[k] : k \in 1..7} |-> <<Row(text, "lap")>>] : text \in TimeTexts}

\* 2024-01-17T20:00Z (Wednesday noon at the pool, standard time) and
\* 2024-03-10T20:00Z (1:00pm on the Sunday whose 2:00am hour is skipped)
TimeInstants == {16 * MinutesPerDay + 1200, 69 * MinutesPerDay + 1200}

InitTimes ==
    /\ ViewNotMounted
    /\ now \in TimeInstants
    /\ clientTimezone = SiteTimezone
    /\ weekOffset = 0
    /\ importOk = TRUE
    /\ page \in TimePages
    /\ failCode = "ETIMEDOUT"
    /\ dayOut = [i \in DayIndexes |-> Null]
    /\ dayPromises = [i \in DayIndexes |-> Null]
    /\ response = Null
    /\ dayResult = Null
    /\ document = Null
    /\ ToggleIdle

\* the text of the page's row
InputText == page["Monday"][1].time

\* parseTimeRange(timeRange) is applied to the text
ParseTime ==
    /\ dayResult = Null
    /\ dayResult' = [op |-> "parseTimeRange", clientDate |-> Null, query |-> Null,
                     fetched |-> TRUE, status |-> 0,
                     result |-> parseTimeRange(InputText)]
    /\ UNCHANGED <<now, clientTimezone, weekOffset, importOk, page, failCode,
                   dayOut, dayPromises, response, document, toggleVars, viewVars>>

\* pstToUtc(timeString, date) converts the start reading of the text
PstToUtc ==
    /\ dayResult = Null
    /\ dayResult' = [op |-> "pstToUtc", clientDate |-> Null, query |-> Null,
                     fetched |-> TRUE, status |-> 0,
                     result |-> pstToUtcClock(InputText.s)]
    /\ UNCHANGED <<now, clientTimezone, weekOffset, importOk, page, failCode,
                   dayOut, dayPromises, response, document, toggleVars, viewVars>>

NextTimes ==
    \/ ScrapeDay
    \/ DayGET
    \/ ParseTime
    \/ PstToUtc

SpecTimes == InitTimes /\ [][NextTimes]_vars

----------------------------------------------------------------------------
(* Properties of the time normalizer, checked under SpecTimes *)

DayQueried == dayResult # Null /\ dayResult.op \in {"scrapePoolHours", "GET"}

\* the calendar day a day query is about
TargetDay ==
    IF dayResult.clientDate # Null THEN ParseDate(dayResult.clientDate)
    ELSE FloorDay(ToLocal(SiteTimezone, now))

\* the hour of day a 12-hour reading names, by the usual rule
StandardHour(r) == (r.h % 12) + (IF r.ap = "pm" THEN 12 ELSE 0)

\* minutes since midnight of a 12-hour reading
ClockMinutes(r) == StandardHour(r) * 60 + r.m

\* the reading falls in the hour the pool's clocks skip on that day
InSkippedHour(day, r) ==
    LET local == day * MinutesPerDay + ClockMinutes(r)
    IN  local >= DstStart - 480 /\ local < DstStart - 420

Jan15 == [y |-> 2024, m |-> 1, d |-> 15]
Jul15 == [y |-> 2024, m |-> 7, d |-> 15]

\* minutes between a session's instants and the wall-clock readings of its text
\* taken as if the target date's wall clock were UTC
OffsetFromWallClock(session, reading, instant) ==
    instant - (TargetDay * MinutesPerDay + ClockMinutes(reading))

StandardClock(r) == [hh |-> StandardHour(r), mm |-> r.m]

C14_RenderingReproducesText ==
    (DayQueried /\ dayResult.op = "GET" /\ dayResult.fetched) =>
        \A k \in 1..Len(dayResult.result.hours) :
            dayResult.result.prettified.lap[k] = dayResult.result.hours[k].original

----------------------------------------------------------------------------
(* scraping-utils.js: parseAllPoolHours over the blocks of the document *)

ShortDays == <<"Mon", "Tue", "Wed", "Thu", "Fri", "Sat", "Sun">>

\* the texts of the vocabulary that are not already lower case
Spellings ==
    {<<"Mon", "mon">>, <<"Tue", "tue">>, <<"Wed", "wed">>, <<"Thu", "thu">>,
     <<"Fri", "fri">>, <<"Sat", "sat">>, <<"Sun", "sun">>,
     <<"Monday", "monday">>, <<"Tuesday", "tuesday">>, <<"Wednesday", "wednesday">>,
     <<"Thursday", "thursday">>, <<"Friday", "friday">>, <<"Saturday", "saturday">>,
     <<"Sunday", "sunday">>,
     <<"MON", "mon">>, <<"FRIDAY", "friday">>, <<"Thurs", "thurs">>, <<"Thr", "thr">>,
     <<"Daily", "daily">>, <<"Holiday Monday", "holiday monday">>}

\* String.prototype.toLowerCase
toLowerCase(text) ==
    IF \E p \in Spellings : p[1] = text
    THEN (CHOOSE p \in Spellings : p[1] = text)[2]
    ELSE text

\* Array.prototype.findIndex(day => day.toLowerCase() === text.toLowerCase())
findIndex(names, text) ==
    LET hits == {k \in 1..Len(names) : toLowerCase(names[k]) = toLowerCase(text)}
    IN  IF hits = {} THEN -1
        ELSE (CHOOSE k \in hits : \A other \in hits : k <= other) - 1

\* variant: the range stops before its end day
getDayRange_EndExclusive(startDay, endDay) ==
    LET s1 == findIndex(ShortDays, startDay)
        e1 == findIndex(ShortDays, endDay)
        startIndex == IF s1 = -1 THEN findIndex(DayNames, startDay) ELSE s1
        endIndex == IF e1 = -1 THEN findIndex(DayNames, endDay) ELSE e1
    IN  IF startIndex = -1 \/ endIndex = -1 THEN <<startDay, endDay>>
        ELSE [i \in 1..(endIndex - startIndex) |-> DayNames[startIndex + i]]

getDayRange(startDay, endDay) ==
    LET s1 == findIndex(ShortDays, startDay)
        e1 == findIndex(ShortDays, endDay)
        startIndex == IF s1 = -1 THEN findIndex(DayNames, startDay) ELSE s1
        endIndex == IF e1 = -1 THEN findIndex(DayNames, endDay) ELSE e1
    IN  IF startIndex = -1 \/ endIndex = -1 THEN <<startDay, endDay>>
        ELSE [i \in 1..(endIndex - startIndex + 1) |-> DayNames[startIndex + i]]

\* dayMap[dayName.toLowerCase().trim()] || null, null written ""
normalizeDayName(dayName) ==
    LET normalized == toLowerCase(dayName)
        short == findIndex(ShortDays, normalized)
        full == findIndex(DayNames, normalized)
    IN  IF short # -1 THEN DayNames[short + 1]
        ELSE IF full # -1 THEN DayNames[full + 1]
        ELSE IF normalized = "thr" THEN "Thursday"
        ELSE ""

\* /^(mon|tue|wed|thu|fri|sat|sun|monday|...|sunday)/i on the texts of the vocabulary
LooksLikeDay(text) ==
    \/ findIndex(ShortDays, text) # -1
    \/ findIndex(DayNames, text) # -1
    \/ toLowerCase(text) = "thurs"

\* /(mon|tue|wed|thu|fri|sat|sun|...)/i anywhere in the text
ContainsDayName(text) == LooksLikeDay(text) \/ toLowerCase(text) = "holiday monday"

\* the text of a day cell: day names joined by "-" or "/"
DayText(parts, sep) == [parts |-> parts, sep |-> sep]

\* table cells: what a cell's text holds of day names, of clock readings and of
\* the markers the type override looks for
DayCell(parts, sep) == [day |-> DayText(parts, sep), time |-> Null, markers |-> {}]
TimeCell(text, markers) == [day |-> Null, time |-> text, markers |-> markers]
LabelCell(markers) == [day |-> Null, time |-> Null, markers |-> markers]

\* the phrases the parsers search for that occur in a heading or paragraph text:
\* "Lap Swim Hours" and "Rec Swim Hours" as written, the others in the text
\* lower-cased
PhrasesOf(text) ==
    IF text = "Lap Swim Hours"
    THEN {"Lap Swim Hours", "lap swim hours", "lap swim", "lap", "swim"}
    ELSE IF text = "LAP SWIM HOURS" THEN {"lap swim hours", "lap swim", "lap", "swim"}
    ELSE IF text = "Lap Lane Swimming" THEN {"lap", "swim"}
    ELSE IF text = "Rec Swim Hours"
    THEN {"Rec Swim Hours", "rec swim hours", "rec swim", "rec", "swim"}
    ELSE IF text = "Recreational Swim"
    THEN {"recreational swim", "recreational", "rec", "swim"}
    ELSE IF text = "Directions" THEN {"rec"}
    ELSE {}

\* the type of the section header an element is taken for, "" when for none
SectionOf(text) ==
    IF "lap swim hours" \in PhrasesOf(text) THEN "lap"
    ELSE IF "rec swim hours" \in PhrasesOf(text) THEN "rec"
    ELSE ""

\* the blocks of the body, all siblings: headings and paragraphs with their
\* text, tables, and tables wrapped in a div
Titled(tag, text) == [tag |-> tag, type |-> SectionOf(text), rows |-> <<>>, text |-> text]
Heading(type) == Titled("h3", IF type = "lap" THEN "Lap Swim Hours" ELSE "Rec Swim Hours")
Table(rows) == [tag |-> "table", type |-> "", rows |-> rows, text |-> ""]
Wrapped(rows) == [tag |-> "div", type |-> "", rows |-> rows, text |-> ""]

LapMarker == "lap swim"
RecMarkers == {"rec swim", "recreational swim", "open swim", "family swim"}

\* the days a day cell stands for
DayNamesOf(dayText) ==
    IF dayText.sep = "-" /\ Len(dayText.parts) >= 2
    THEN getDayRange(dayText.parts[1], dayText.parts[2])
    ELSE SelectSeq([k \in 1..Len(dayText.parts) |-> normalizeDayName(dayText.parts[k])],
                   LAMBDA name : name # "")


\* whether the cell's text or the row's text includes the marker
Includes(row, cell, marker) ==
    marker \in cell.markers \/ \E k \in 1..Len(row) : marker \in row[k].markers

\* variant: the rec markers are looked for first and the lap marker last
SessionType_LapLast(tableSessionType, row, cell) ==
    LET afterRec == IF \E m \in RecMarkers : Includes(row, cell, m)
                    THEN "rec" ELSE tableSessionType
    IN  IF Includes(row, cell, LapMarker) THEN "lap" ELSE afterRec

\* the type of one time cell: the table's type, overridden by a lap marker and
\* then by a rec marker
SessionType(tableSessionType, row, cell) ==
    LET afterLap == IF Includes(row, cell, LapMarker) THEN "lap" ELSE tableSessionType
    IN  IF \E m \in RecMarkers : Includes(row, cell, m) THEN "rec" ELSE afterLap

\* timeColumns.forEach: the pushes of the time cells from cell k on
RECURSIVE CellPushes(_, _, _, _)
CellPushes(row, k, dayNames, tableSessionType) ==
    IF k > Len(row) THEN <<>>
    ELSE (IF row[k].time # Null
          THEN [j \in 1..Len(dayNames) |->
                   [day |-> dayNames[j], time |-> row[k].time,
                    type |-> SessionType(tableSessionType, row, row[k])]]
          ELSE <<>>)
         \o CellPushes(row, k + 1, dayNames, tableSessionType)

\* variant: a row without a day cell is read as a row of every weekday
RowPushes_EveryDay(row, tableSessionType) ==
    LET dayColumns == {k \in 1..Len(row) :
                          row[k].day # Null /\ LooksLikeDay(row[k].day.parts[1])}
        dayColumn == CHOOSE k \in dayColumns : \A other \in dayColumns : k >= other
    IN  IF Len(row) < 2 THEN <<>>
        ELSE IF dayColumns = {} THEN CellPushes(row, 1, DayNames, tableSessionType)
        ELSE CellPushes(row, 1, DayNamesOf(row[dayColumn].day), tableSessionType)

\* the body of $table.find('tr').each for one row
RowPushes(row, tableSessionType) ==
    LET dayColumns == {k \in 1..Len(row) :
                          row[k].day # Null /\ LooksLikeDay(row[k].day.parts[1])}
        timeColumns == {k \in 1..Len(row) : row[k].time # Null}
        dayColumn == CHOOSE k \in dayColumns : \A other \in dayColumns : k >= other
    IN  IF Len(row) < 2 THEN <<>>
        ELSE IF dayColumns = {} \/ timeColumns = {} THEN <<>>
        ELSE CellPushes(row, 1, DayNamesOf(row[dayColumn].day), tableSessionType)

RECURSIVE TablePushes(_, _)
TablePushes(rows, tableSessionType) ==
    IF rows = <<>> THEN <<>>
    ELSE RowPushes(rows[1], tableSessionType)
         \o TablePushes(SubSeq(rows, 2, Len(rows)), tableSessionType)

\* the cells of all tables of the document
CellsOf(doc) ==
    UNION {UNION {{doc[b].rows[r][c] : c \in 1..Len(doc[b].rows[r])}
                     : r \in 1..Len(doc[b].rows)}
              : b \in 1..Len(doc)}

\* hasTimePattern && hasDayNames of the table's own and its siblings' text; a
\* table wrapped in a div has no siblings
HoldsPoolHours(doc) ==
    /\ \E cell \in CellsOf(doc) : cell.time # Null /\ cell.time.match
    /\ \E cell \in CellsOf(doc) :
          cell.day # Null /\ \E k \in 1..Len(cell.day.parts) : ContainsDayName(cell.day.parts[k])

\* the type of the most recent section header before block b.  The elements that
\* enclose the whole document precede every table and count as a lap header when
\* the document says "lap swim hours" anywhere, else as a rec header when it says
\* "rec swim hours".
TableSessionType(doc, b) ==
    LET before == {j \in 1..(b - 1) : doc[j].type # ""}
        nearest == CHOOSE j \in before : \A other \in before : j >= other
        headings == {j \in 1..Len(doc) : doc[j].type # ""}
    IN  IF before # {} THEN doc[nearest].type
        ELSE IF \E j \in headings : doc[j].type = "lap" THEN "lap"
        ELSE "rec"

\* $('table').each: the pushes of the tables from block b on
RECURSIVE DocPushes(_, _)
DocPushes(doc, b) ==
    IF b > Len(doc) THEN <<>>
    ELSE (IF \/ doc[b].tag = "table" /\ HoldsPoolHours(doc)
             \/ doc[b].tag = "div" /\ HoldsPoolHours(<<doc[b]>>)
          THEN TablePushes(doc[b].rows, TableSessionType(doc, b))
          ELSE <<>>)
         \o DocPushes(doc, b + 1)

RECURSIVE EntriesOf(_, _)
EntriesOf(pushes, dayName) ==
    IF pushes = <<>> THEN <<>>
    ELSE (IF pushes[1].day = dayName THEN <<Row(pushes[1].time, pushes[1].type)>>
          ELSE <<>>)
         \o EntriesOf(SubSeq(pushes, 2, Len(pushes)), dayName)

\* allHours: the keys that were pushed to, each with its entries in push order
parseAllPoolHours(doc) ==
    LET pushes == DocPushes(doc, 1)
    IN  [dayName \in {pushes[i].day : i \in 1..Len(pushes)} |-> EntriesOf(pushes, dayName)]

----------------------------------------------------------------------------
(* The schedule extractor as a state machine: one fetched document *)

\* the texts a day cell is written with
DayTokens == {p[1] : p \in Spellings} \cup {"mon", "friday"}

\* documents with one lap table of one row whose day cell joins two day texts
RangeDocuments ==
    {<<Heading("lap"), Table(<<<<DayCell(<<a, b>>, sep), TimeCell(Morning, {})>>>>)>> :
        a \in DayTokens, b \in DayTokens, sep \in {"-", "/"}}

MarkerSets ==
    {{}, {LapMarker}} \cup {{m} : m \in RecMarkers} \cup {{LapMarker, m} : m \in RecMarkers}

\* one "Mon-Fri" row whose time cell and (if present) label cell carry markers
MarkerRows ==
    {<<DayCell(<<"Mon", "Fri">>, "-"), TimeCell(Afternoon, markers)>> :
        markers \in MarkerSets}
    \cup {<<DayCell(<<"Mon", "Fri">>, "-"), TimeCell(Afternoon, markers), LabelCell(label)>> :
        markers \in MarkerSets, label \in MarkerSets}

\* a table of one such row with no heading, after a lap or a rec heading, or
\* before a lap heading
MarkerDocuments ==
    {<<Table(<<row>>)>> : row \in MarkerRows}
    \cup {<<Heading(type), Table(<<row>>)>> : type \in {"lap", "rec"}, row \in MarkerRows}
    \cup {<<Table(<<row>>), Heading("lap")>> : row \in MarkerRows}

\* a row as the extractor expects it, and rows it cannot read
GoodRow == <<DayCell(<<"Sat", "Sun">>, "/"), TimeCell(Morning, {})>>
MissRows ==
    {<<TimeCell(Morning, {})>>,
     <<LabelCell({}), TimeCell(Afternoon, {})>>,
     <<DayCell(<<"Monday">>, ""), LabelCell({})>>,
     <<DayCell(<<"Daily">>, ""), TimeCell(Afternoon, {})>>,
     <<DayCell(<<"Holiday Monday">>, ""), TimeCell(Afternoon, {})>>,
     <<DayCell(<<"Thurs", "Sat">>, "-"), TimeCell(Afternoon, {})>>,
     <<DayCell(<<"Monday">>, ""), TimeCell(NoMatchText, {})>>,
     <<LabelCell({}), LabelCell({LapMarker})>>}

\* documents without a table, and documents whose tables hold unreadable rows
MissDocuments ==
    {<<>>, <<Heading("lap")>>, <<Heading("lap"), Heading("rec")>>}
    \cup {<<Heading("lap"), Table(rows)>> :
            rows \in {<<r>> : r \in MissRows \cup {GoodRow}}
                     \cup {<<r1, r2>> : r1 \in MissRows \cup {GoodRow}, r2 \in MissRows}}
    \cup {<<Table(<<r>>), Heading("rec"), Table(<<GoodRow>>)>> : r \in MissRows}

Documents == RangeDocuments \cup MarkerDocuments \cup MissDocuments

InitExtract ==
    /\ ViewNotMounted
    /\ now \in NowInstants
    /\ clientTimezone = SiteTimezone
    /\ weekOffset = 0
    /\ importOk = TRUE
    /\ page = Null
    /\ failCode = "ECONNREFUSED"
    /\ dayOut = [i \in DayIndexes |-> Null]
    /\ dayPromises = [i \in DayIndexes |-> Null]
    /\ response = Null
    /\ dayResult = Null
    /\ document \in Documents
    /\ ToggleIdle

\* scrapePoolHours(clientDate) fetches the document, parses it and returns
ScrapeDocument ==
    /\ dayResult = Null
    /\ \E clientDate \in ClientDates, upstreamOk \in BOOLEAN :
          LET allPoolHours == parseAllPoolHours(document)
              fetch == IF upstreamOk THEN FetchOk(allPoolHours) ELSE FetchFailed(failCode)
          IN  /\ page' = IF upstreamOk THEN allPoolHours ELSE page
              /\ dayResult' = [op |-> "scrapePoolHours", clientDate |-> clientDate,
                               query |-> Null, fetched |-> upstreamOk, status |-> 0,
                               result |-> scrapePoolHours(clientDate, fetch, now)]
    /\ UNCHANGED <<now, clientTimezone, weekOffset, importOk, failCode,
                   dayOut, dayPromises, response, document, toggleVars, viewVars>>

\* the day cells of the document that are written as a range
RangeCells(doc) == {cell \in CellsOf(doc) : cell.day # Null /\ cell.day.sep = "-"}

\* getDayRange(startDay, endDay) is applied to the two sides of a day cell
ExpandRange ==
    /\ dayResult = Null
    /\ \E cell \in RangeCells(document) :
          dayResult' = [op |-> "getDayRange", clientDate |-> Null, query |-> Null,
                        fetched |-> TRUE, status |-> 0,
                        startDay |-> cell.day.parts[1], endDay |-> cell.day.parts[2],
                        result |-> getDayRange(cell.day.parts[1], cell.day.parts[2])]
    /\ UNCHANGED <<now, clientTimezone, weekOffset, importOk, page, failCode,
                   dayOut, dayPromises, response, document, toggleVars, viewVars>>

NextExtract ==
    \/ ScrapeDocument
    \/ ExpandRange

SpecExtract == InitExtract /\ [][NextExtract]_vars

----------------------------------------------------------------------------
(* Properties of the schedule extractor, checked under SpecExtract *)

\* the text names the k-th weekday, abbreviated or in full, in any case
NamesWeekday(text, k) ==
    toLowerCase(text) \in {toLowerCase(ShortDays[k]), toLowerCase(DayNames[k])}

\* the one row of a document of one table
OnlyRow ==
    document[CHOOSE b \in 1..Len(document) : document[b].tag = "table"].rows[1]

\* C15: expanding a hyphenated weekday range whose start weekday is not after
\* its end weekday yields every weekday from start to end inclusive, in week
\* order and with no other entries, both from getDayRange and in the keys the
\* extractor files the row's time under; "Mon-Fri" yields exactly Monday,
\* Tuesday, Wednesday, Thursday, Friday.
C15_RangeExpandsInclusive ==
    /\ (dayResult # Null /\ dayResult.op = "getDayRange") =>
          /\ \A i, j \in 1..7 :
                (NamesWeekday(dayResult.startDay, i) /\ NamesWeekday(dayResult.endDay, j)
                 /\ i <= j)
                    => dayResult.result = SubSeq(DayNames, i, j)
          /\ (dayResult.startDay = "Mon" /\ dayResult.endDay = "Fri")
                => dayResult.result
                      = <<"Monday", "Tuesday", "Wednesday", "Thursday", "Friday">>
    /\ (dayResult # Null /\ dayResult.op = "scrapePoolHours" /\ dayResult.fetched
        /\ document \in RangeDocuments /\ OnlyRow[1].day.sep = "-") =>
          \A i, j \in 1..7 :
              (NamesWeekday(OnlyRow[1].day.parts[1], i)
               /\ NamesWeekday(OnlyRow[1].day.parts[2], j) /\ i <= j)
                  => /\ DOMAIN page = {DayNames[k] : k \in i..j}
                     /\ \A k \in i..j : page[DayNames[k]] = <<Row(Morning, "lap")>>

C15_Witness ==
    /\ dayResult # Null
    /\ dayResult.op = "getDayRange"
    /\ dayResult.startDay = "Mon"
    /\ dayResult.endDay = "Fri"
    /\ dayResult.result = <<"Monday", "Tuesday", "Wednesday", "Thursday", "Friday">>


\* the text of the one row holds the marker, in its time cell or in another cell
RowMentions(marker) == \E k \in 1..Len(OnlyRow) : marker \in OnlyRow[k].markers

\* C16: a time cell whose cell text or row text contains both a lap marker
\* ("lap swim") and a recreational marker ("rec swim", "recreational swim",
\* "open swim" or "family swim") is classified as recreational, whatever the
\* table's default type is.
C16_RecMarkerWinsOverLapMarker ==
    (dayResult # Null /\ dayResult.op = "scrapePoolHours" /\ dayResult.fetched
     /\ document \in MarkerDocuments
     /\ RowMentions("lap swim")
     /\ \E m \in {"rec swim", "recreational swim", "open swim", "family swim"} :
           RowMentions(m)) =>
        /\ DOMAIN page = {"Monday", "Tuesday", "Wednesday", "Thursday", "Friday"}
        /\ \A d \in DOMAIN page : page[d] = <<Row(Afternoon, "rec")>>

C16_Witness ==
    /\ dayResult # Null
    /\ dayResult.op = "scrapePoolHours"
    /\ dayResult.fetched
    /\ document = <<Heading("lap"),
                    Table(<<<<DayCell(<<"Mon", "Fri">>, "-"),
                              TimeCell(Afternoon, {"lap swim"}),
                              LabelCell({"family swim"})>>>>)>>
    /\ page["Monday"] = <<Row(Afternoon, "rec")>>
    /\ dayResult.clientDate = Jan15
    /\ Len(dayResult.result.hours) = 1
    /\ dayResult.result.hours[1].type = "rec"


\* rows of the document that are GoodRow, counted over all tables
GoodRowCount ==
    Cardinality({<<b, r>> \in (1..Len(document)) \X (1..2) :
                    r <= Len(document[b].rows) /\ document[b].rows[r] = GoodRow})

\* no cell of the document begins with a weekday name, or no cell holds a time
NoDayOrNoTimeCells ==
    \/ \A cell \in CellsOf(document) : cell.time = Null
    \/ \A cell \in CellsOf(document) :
          cell.day = Null
          \/ ~\E k \in 1..7 : NamesWeekday(cell.day.parts[1], k)
                              \/ cell.day.parts[1] = "Thurs"

\* C17: a document in which a schedule table is missing, a row has no
\* recognizable day cell or time cell, or a time string does not match the
\* range pattern never makes the day query fail: the result carries no error,
\* its sessions are exactly those of the readable rows of the target weekday
\* (the affected entries are dropped), and a document with no recognizable day
\* cells or no time cells yields an empty mapping.
C17_ExtractionMissesAreNotFatal ==
    (dayResult # Null /\ dayResult.op = "scrapePoolHours" /\ dayResult.fetched
     /\ document \in MissDocuments) =>
        /\ dayResult.result.error = Null
        /\ \A k \in 1..Len(dayResult.result.hours) :
              /\ dayResult.result.hours[k].original = Morning
              /\ dayResult.result.hours[k].start < dayResult.result.hours[k].end
        /\ Len(dayResult.result.hours)
              = (IF dayResult.result.dayName \in {"Saturday", "Sunday"}
                 THEN GoodRowCount ELSE 0)
        /\ NoDayOrNoTimeCells => (DOMAIN page = {} /\ dayResult.result.hours = <<>>)

C17_Witness ==
    /\ dayResult # Null
    /\ dayResult.op = "scrapePoolHours"
    /\ dayResult.fetched
    /\ document = <<Heading("lap"),
                    Table(<<GoodRow, <<DayCell(<<"Monday">>, ""), TimeCell(NoMatchText, {})>>>>)>>
    /\ dayResult.clientDate = Jan15
    /\ page["Monday"] = <<Row(NoMatchText, "lap")>>
    /\ dayResult.result.hours = <<>>
    /\ dayResult.result.error = Null

----------------------------------------------------------------------------
(* Properties of the day query's flags, checked under SpecTimes *)

\* today's calendar day at the pool
TodayAtSite == FloorDay(ToLocal(SiteTimezone, now))

\* the calendar day the caller of the day query asked for
RequestedDay ==
    IF dayResult.op = "GET"
    THEN (IF dayResult.query # Null THEN ParseDate(dayResult.query) ELSE TodayAtSite)
    ELSE (IF dayResult.clientDate # Null THEN ParseDate(dayResult.clientDate)
          ELSE TodayAtSite)

\* the day result reports the pool open (an absent isOpenNow reports it closed)
ReportsOpenNow ==
    "isOpenNow" \in DOMAIN dayResult.result /\ dayResult.result.isOpenNow

\* C18: isOpenNow is true only if the target date is today in the site timezone
\* and the current time lies within the start-to-end range of some session of
\* that day, both bounds inclusive, at minute granularity; for a target date
\* that is not today it is false whatever the sessions are.
C18_OpenNowOnlyForToday ==
    DayQueried =>
        /\ ReportsOpenNow =>
              /\ RequestedDay = TodayAtSite
              /\ \E k \in 1..Len(dayResult.result.hours) :
                    /\ dayResult.result.hours[k].start <= now
                    /\ now <= dayResult.result.hours[k].end
        /\ RequestedDay # TodayAtSite => ~ReportsOpenNow

----------------------------------------------------------------------------
(* Properties of the week query's isToday flags, checked under Spec *)

FlaggedToday == {k \in 1..Len(WeekData) : WeekData[k].isToday}

\* C19: in a week result a day entry is flagged isToday if and only if its date
\* equals today's calendar date in the client-supplied timezone; so at most one
\* entry is flagged, and none is flagged when weekOffset is not 0.
C19_TodayFlagMatchesClientDate ==
    Answered =>
        /\ \A k \in 1..Len(WeekData) :
              WeekData[k].isToday
                  <=> (ParseDate(WeekData[k].date) = TodayInClientTimezone)
        /\ Cardinality(FlaggedToday) <= 1
        /\ weekOffset # 0 => FlaggedToday = {}

----------------------------------------------------------------------------
(* app/components/ViewToggle.js *)

Views == {"daily", "weekly"}
Keys == {"Enter", " ", "ArrowLeft", "ArrowRight", "Tab", "Escape", "a"}

\* view === 'daily' ? 'weekly' : 'daily'
OtherView(view) == IF view = "daily" THEN "weekly" ELSE "daily"

\* variant: onViewChange is called whatever the current view is
handleViewChange_Always(view) == Append(onViewChangeCalls, view)

\* the calls of onViewChange after handleViewChange(view)
handleViewChange(view) ==
    IF view # currentView THEN Append(onViewChangeCalls, view)
    ELSE onViewChangeCalls

\* the number of the next DOM event
NextEventNumber == IF lastEvent = Null THEN 1 ELSE lastEvent.n + 1

InitToggle ==
    /\ ViewNotMounted
    /\ now \in NowInstants
    /\ clientTimezone = SiteTimezone
    /\ weekOffset = 0
    /\ importOk = TRUE
    /\ page = PageEmpty
    /\ failCode = "ECONNREFUSED"
    /\ dayOut = [i \in DayIndexes |-> Null]
    /\ dayPromises = [i \in DayIndexes |-> Null]
    /\ response = Null
    /\ dayResult = Null
    /\ document = Null
    /\ currentView \in Views
    /\ focusedButton = ""
    /\ onViewChangeCalls = <<>>
    /\ lastEvent = Null

\* onClick of the button of a view
Click(view) ==
    /\ NextEventNumber <= MaxEvents
    /\ lastEvent' = [n |-> NextEventNumber, type |-> "click", view |-> view, key |-> ""]
    /\ onViewChangeCalls' = handleViewChange(view)
    /\ UNCHANGED <<serverVars, viewVars, currentView, focusedButton>>

\* onKeyDown of the button of a view: handleKeyDown(event, view)
KeyDown(view, key) ==
    /\ NextEventNumber <= MaxEvents
    /\ lastEvent' = [n |-> NextEventNumber, type |-> "keydown", view |-> view, key |-> key]
    /\ IF key = "Enter" \/ key = " "
       THEN /\ onViewChangeCalls' = handleViewChange(view)
            /\ UNCHANGED focusedButton
       ELSE IF key = "ArrowLeft" \/ key = "ArrowRight"
       THEN /\ onViewChangeCalls' = handleViewChange(OtherView(view))
            \* otherButton.focus(): onBlur of this button, onFocus of the other
            /\ focusedButton' = OtherView(view)
       ELSE UNCHANGED <<onViewChangeCalls, focusedButton>>
    /\ UNCHANGED <<serverVars, viewVars, currentView>>

\* onFocus of the button of a view
Focus(view) ==
    /\ focusedButton # view
    /\ focusedButton' = view
    /\ UNCHANGED <<serverVars, viewVars, currentView, onViewChangeCalls, lastEvent>>

\* onBlur of the focused button
Blur ==
    /\ focusedButton # ""
    /\ focusedButton' = ""
    /\ UNCHANGED <<serverVars, viewVars, currentView, onViewChangeCalls, lastEvent>>

\* the parent renders the toggle again with the other view as currentView
Rerender ==
    /\ currentView' = OtherView(currentView)
    /\ UNCHANGED <<serverVars, viewVars, focusedButton, onViewChangeCalls, lastEvent>>

NextToggle ==
    \/ \E view \in Views : Click(view)
    \/ \E view \in Views, key \in Keys : KeyDown(view, key)
    \/ \E view \in Views : Focus(view)
    \/ Blur
    \/ Rerender

SpecToggle == InitToggle /\ [][NextToggle]_vars

----------------------------------------------------------------------------
(* Properties of the view toggle, checked under SpecToggle *)

\* the view an event asks for, "" when it asks for none
RequestedView(event) ==
    IF event.type = "click" THEN event.view
    ELSE IF event.key \in {"Enter", " "} THEN event.view
    ELSE IF event.key \in {"ArrowLeft", "ArrowRight"}
    THEN (IF event.view = "daily" THEN "weekly" ELSE "daily")
    ELSE ""

\* C20: the view toggle calls onViewChange, once and with the requested view,
\* exactly when the requested view differs from the current view: a click or
\* Enter or Space on the tab already selected never calls it, and keys other
\* than Enter, Space, ArrowLeft and ArrowRight never call it.
C20_CallsExactlyOnChange ==
    [][lastEvent' # lastEvent =>
          IF RequestedView(lastEvent') # "" /\ RequestedView(lastEvent') # currentView
          THEN onViewChangeCalls' = Append(onViewChangeCalls, RequestedView(lastEvent'))
          ELSE onViewChangeCalls' = onViewChangeCalls]_vars

C20_Witness ==
    /\ lastEvent # Null
    /\ lastEvent.n = 2
    /\ lastEvent.type = "keydown"
    /\ lastEvent.key = "Enter"
    /\ lastEvent.view = "weekly"
    /\ currentView = "weekly"
    /\ onViewChangeCalls = <<"weekly">>

----------------------------------------------------------------------------
(* More properties of the schedule extractor, checked under SpecExtract *)

\* the weekday number (1 = Monday) a day text names, 0 when it names none
WeekdayNumber(text) ==
    IF \E k \in 1..7 : NamesWeekday(text, k)
    THEN CHOOSE k \in 1..7 : NamesWeekday(text, k)
    ELSE 0

\* C25: a hyphenated weekday range whose end weekday comes before its start
\* weekday in the week (such as "Fri-Mon") is not wrapped around: its expansion
\* is exactly the two endpoint weekdays.
C25_ReversedRangeYieldsEndpoints ==
    (dayResult # Null /\ dayResult.op = "getDayRange"
     /\ WeekdayNumber(dayResult.startDay) # 0
     /\ WeekdayNumber(dayResult.endDay) # 0
     /\ WeekdayNumber(dayResult.endDay) < WeekdayNumber(dayResult.startDay)) =>
        /\ Len(dayResult.result) = 2
        /\ WeekdayNumber(dayResult.result[1]) = WeekdayNumber(dayResult.startDay)
        /\ WeekdayNumber(dayResult.result[2]) = WeekdayNumber(dayResult.endDay)

\* the block of the document that is its first table
FirstTable == CHOOSE b \in 1..Len(document) :
                 /\ document[b].tag = "table"
                 /\ \A other \in 1..(b - 1) : document[other].tag # "table"

\* the category headings that stand before block b in document order
HeadingsBefore(b) == {j \in 1..(b - 1) : document[j].tag = "h3"}

\* C26: in combined extraction a time cell with no explicit marker gets the
\* type of the category heading that most recently precedes its table in
\* document order, and "recreational" when no heading precedes the table; a
\* heading that comes after the table never determines the table's type.
C26_TypeFromNearestHeadingBefore ==
    (dayResult # Null /\ dayResult.op = "scrapePoolHours" /\ dayResult.fetched
     /\ document \in MarkerDocuments
     /\ \A k \in 1..Len(OnlyRow) : OnlyRow[k].markers = {}) =>
        LET before == HeadingsBefore(FirstTable)
            expected == IF before = {} THEN "rec"
                        ELSE document[CHOOSE j \in before :
                                         \A other \in before : other <= j].type
        IN  \A d \in DOMAIN page :
                \A k \in 1..Len(page[d]) : page[d][k].type = expected

WeekdayNames ==
    {"Monday", "Tuesday", "Wednesday", "Thursday", "Friday", "Saturday", "Sunday"}

\* C28: every key of the mapping the schedule extractor produces is one of the
\* seven full weekday names Monday to Sunday; day text that resolves to no
\* weekday name adds no entry to the mapping.
C28_KeysAreWeekdayNames ==
    (dayResult # Null /\ dayResult.op = "scrapePoolHours" /\ dayResult.fetched) =>
        /\ DOMAIN page \subseteq WeekdayNames
        /\ (document \in RangeDocuments
            /\ \A k \in 1..Len(OnlyRow[1].day.parts) :
                  normalizeDayName(OnlyRow[1].day.parts[k]) = "")
              => DOMAIN page = {}

----------------------------------------------------------------------------
(* app/api/pool-hours/route.js: parseLapSwimHours and parseRecSwimHours over *)
(* the blocks of the document                                                *)

\* the searched phrases that occur in a marker of a cell text
MarkerPhrases(marker) ==
    IF marker = "lap swim" THEN {"lap swim", "lap", "swim"}
    ELSE IF marker = "rec swim" THEN {"rec swim", "rec", "swim"}
    ELSE IF marker = "recreational swim"
    THEN {"recreational swim", "recreational", "rec", "swim"}
    ELSE {marker, "swim"}

\* $(element).text() includes the phrase
TextIncludes(block, phrase) ==
    \/ phrase \in PhrasesOf(block.text)
    \/ \E r \in 1..Len(block.rows) : \E c \in 1..Len(block.rows[r]) :
          \E marker \in block.rows[r][c].markers : phrase \in MarkerPhrases(marker)

\* $(h3).nextUntil('h3'): the siblings after block j up to the next h3
nextUntil(doc, j) ==
    {k \in (j + 1)..Len(doc) : \A i \in (j + 1)..k : doc[i].tag # "h3"}

\* .first() of a selection of blocks, 0 for the empty selection
First(blocks) ==
    IF blocks = {} THEN 0 ELSE CHOOSE k \in blocks : \A other \in blocks : k <= other

\* section.find('table').first(): find() searches the descendants of the
\* siblings, so a table that is itself a sibling of the heading is not found
SectionTable(doc, headings) ==
    First({k \in UNION {nextUntil(doc, j) : j \in headings} : doc[k].tag = "div"})

\* $('table')
Tables(doc) == {k \in 1..Len(doc) : doc[k].tag \in {"table", "div"}}

\* (tableText + prevText + nextText).includes(phrase); a table wrapped in a div
\* has no siblings
NearbyIncludes(doc, k, phrase) ==
    IF doc[k].tag = "div" THEN TextIncludes(doc[k], phrase)
    ELSE \E j \in 1..Len(doc) : TextIncludes(doc[j], phrase)

\* hasTimePattern && hasDayNames over the cells of one table
HasTimesAndDays(block) ==
    /\ \E cell \in CellsOf(<<block>>) : cell.time # Null /\ cell.time.match
    /\ \E cell \in CellsOf(<<block>>) : cell.day # Null /\ LooksLikeDay(cell.day.parts[1])

H3(doc) == {j \in 1..Len(doc) : doc[j].tag = "h3"}

\* variant: the structural strategy is tried first
lapStrategies_StructuralFirst(doc) ==
    <<First({k \in Tables(doc) : HasTimesAndDays(doc[k])}),
      SectionTable(doc, {j \in H3(doc) : "Lap Swim Hours" \in PhrasesOf(doc[j].text)}),
      SectionTable(doc, {j \in H3(doc) : /\ "lap" \in PhrasesOf(doc[j].text)
                                         /\ "swim" \in PhrasesOf(doc[j].text)}),
      First({k \in Tables(doc) : NearbyIncludes(doc, k, "lap")})>>

\* the selections of the four strategies of parseLapSwimHours, in their order
lapStrategies(doc) ==
    <<SectionTable(doc, {j \in H3(doc) : "Lap Swim Hours" \in PhrasesOf(doc[j].text)}),
      SectionTable(doc, {j \in H3(doc) : /\ "lap" \in PhrasesOf(doc[j].text)
                                         /\ "swim" \in PhrasesOf(doc[j].text)}),
      First({k \in Tables(doc) : NearbyIncludes(doc, k, "lap")}),
      First({k \in Tables(doc) : HasTimesAndDays(doc[k])})>>

\* the selections of the three strategies of parseRecSwimHours, in their order
recStrategies(doc) ==
    <<SectionTable(doc, {j \in H3(doc) : "Rec Swim Hours" \in PhrasesOf(doc[j].text)}),
      SectionTable(doc, {j \in H3(doc) :
                            /\ \/ "rec" \in PhrasesOf(doc[j].text)
                               \/ "recreational" \in PhrasesOf(doc[j].text)
                            /\ "swim" \in PhrasesOf(doc[j].text)}),
      First({k \in Tables(doc) : \/ NearbyIncludes(doc, k, "rec")
                                 \/ NearbyIncludes(doc, k, "recreational")})>>

\* for (const strategy of strategies) { table = strategy(); if (table.length > 0) break; }
RECURSIVE FirstNonEmpty(_)
FirstNonEmpty(results) ==
    IF results = <<>> THEN 0
    ELSE IF results[1] # 0 THEN results[1]
    ELSE FirstNonEmpty(Tail(results))

\* route.js's normalizeDayName, null written ""
RouteNormalizeDayName(dayName) ==
    LET normalized == toLowerCase(dayName)
        short == findIndex(ShortDays, normalized)
        full == findIndex(DayNames, normalized)
    IN  IF short # -1 THEN DayNames[short + 1]
        ELSE IF full # -1 THEN DayNames[full + 1]
        ELSE ""

\* the days a day cell stands for in route.js
RouteDayNamesOf(dayText) ==
    IF dayText.sep = "-" /\ Len(dayText.parts) >= 2
    THEN getDayRange(dayText.parts[1], dayText.parts[2])
    ELSE SelectSeq([k \in 1..Len(dayText.parts) |-> RouteNormalizeDayName(dayText.parts[k])],
                   LAMBDA name : name # "")

\* timeColumns: the time texts of the row from cell k on
RECURSIVE RowTimes(_, _)
RowTimes(row, k) ==
    IF k > Len(row) THEN <<>>
    ELSE (IF row[k].time # Null THEN <<row[k].time>> ELSE <<>>) \o RowTimes(row, k + 1)

\* the body of table.find('tr').each for one row: for each day of the day cell,
\* every time text of the row
RouteRowPushes(row) ==
    LET dayColumns == {k \in 1..Len(row) :
                          row[k].day # Null /\ LooksLikeDay(row[k].day.parts[1])}
        dayColumn == CHOOSE k \in dayColumns : \A other \in dayColumns : k >= other
        dayNames == RouteDayNamesOf(row[dayColumn].day)
        times == RowTimes(row, 1)
    IN  IF Len(row) < 2 \/ dayColumns = {} \/ times = <<>> THEN <<>>
        ELSE [i \in 1..(Len(dayNames) * Len(times)) |->
                 [day |-> dayNames[((i - 1) \div Len(times)) + 1],
                  time |-> times[((i - 1) % Len(times)) + 1]]]

RECURSIVE RouteTablePushes(_)
RouteTablePushes(rows) ==
    IF rows = <<>> THEN <<>>
    ELSE RouteRowPushes(rows[1]) \o RouteTablePushes(Tail(rows))

RECURSIVE TimesOn(_, _)
TimesOn(pushes, dayName) ==
    IF pushes = <<>> THEN <<>>
    ELSE (IF pushes[1].day = dayName THEN <<pushes[1].time>> ELSE <<>>)
         \o TimesOn(Tail(pushes), dayName)

\* what a parser returns for the table it located: the empty object when it
\* located none, else the time texts per day in push order
LocatedTableHours(doc, table) ==
    LET pushes == IF table = 0 THEN <<>> ELSE RouteTablePushes(doc[table].rows)
    IN  [dayName \in {pushes[i].day : i \in 1..Len(pushes)} |-> TimesOn(pushes, dayName)]

\* the table parseLapSwimHours and parseRecSwimHours parse, 0 for none
LapSwimTable(doc) == FirstNonEmpty(lapStrategies(doc))
RecSwimTable(doc) == FirstNonEmpty(recStrategies(doc))

\* the rows of both results per day, each tagged with its parser's type
FetchedPage(doc) ==
    LET lapSwimHours == LocatedTableHours(doc, LapSwimTable(doc))
        recSwimHours == LocatedTableHours(doc, RecSwimTable(doc))
        Tagged(hours, d, type) ==
            IF d \in DOMAIN hours THEN [k \in 1..Len(hours[d]) |-> Row(hours[d][k], type)]
            ELSE <<>>
    IN  [d \in DOMAIN lapSwimHours \cup DOMAIN recSwimHours |->
            Tagged(lapSwimHours, d, "lap") \o Tagged(recSwimHours, d, "rec")]

----------------------------------------------------------------------------
(* The table locator as a state machine: one fetched document *)

WeekdayRow == <<DayCell(<<"Mon", "Fri">>, "-"), TimeCell(Afternoon, {})>>
LabelRow == <<LabelCell({"lap swim"}), LabelCell({})>>
FamilyRow == <<DayCell(<<"Sat", "Sun">>, "/"), TimeCell(EarlyLap, {"recreational swim"})>>

\* the blocks a document is put together from
LocateBlocks ==
    {Titled("h3", text) : text \in {"Lap Swim Hours", "LAP SWIM HOURS", "Rec Swim Hours",
                                     "Recreational Swim", "Pool Rules"}}
    \cup {Titled("p", "Directions")}
    \cup {Table(<<GoodRow>>), Table(<<LabelRow>>), Table(<<FamilyRow>>),
          Wrapped(<<GoodRow>>), Wrapped(<<WeekdayRow>>)}

RECURSIVE BlockLists(_)
BlockLists(n) ==
    IF n = 0 THEN {<<>>}
    ELSE BlockLists(n - 1)
         \cup {Append(blocks, b) : blocks \in {l \in BlockLists(n - 1) : Len(l) = n - 1},
                                   b \in LocateBlocks}

LocateDocuments == BlockLists(MaxBlocks)

InitLocate ==
    /\ ViewNotMounted
    /\ now \in NowInstants
    /\ clientTimezone = SiteTimezone
    /\ weekOffset = 0
    /\ importOk = TRUE
    /\ page = Null
    /\ failCode = "ENOTFOUND"
    /\ dayOut = [i \in DayIndexes |-> Null]
    /\ dayPromises = [i \in DayIndexes |-> Null]
    /\ response = Null
    /\ dayResult = Null
    /\ document \in LocateDocuments
    /\ ToggleIdle

\* parseLapSwimHours($) and parseRecSwimHours($) locate their tables
LocateTables ==
    /\ dayResult = Null
    /\ dayResult' = [op |-> "locate", clientDate |-> Null, query |-> Null,
                     fetched |-> TRUE, status |-> 0,
                     result |-> [lap |-> LapSwimTable(document),
                                 rec |-> RecSwimTable(document)]]
    /\ UNCHANGED <<now, clientTimezone, weekOffset, importOk, page, failCode,
                   dayOut, dayPromises, response, document, toggleVars, viewVars>>

\* a GET of /api/pool-hours fetches the document, parses it and answers
DocumentGET ==
    /\ dayResult = Null
    /\ \E upstreamOk \in BOOLEAN, data \in {FetchedPage(document)} :
          \E answer \in {PoolHoursGET(IF upstreamOk THEN FetchOk(data)
                                      ELSE FetchFailed(failCode), now)} :
              /\ page' = IF upstreamOk THEN data ELSE page
              /\ dayResult' = [op |-> "GET", clientDate |-> Null, query |-> Null,
                               fetched |-> upstreamOk, status |-> answer.status,
                               result |-> answer.body]
    /\ UNCHANGED <<now, clientTimezone, weekOffset, importOk, failCode,
                   dayOut, dayPromises, response, document, toggleVars, viewVars>>

NextLocate ==
    \/ LocateTables
    \/ DocumentGET

SpecLocate == InitLocate /\ [][NextLocate]_vars

----------------------------------------------------------------------------
(* Properties of the table locator, checked under SpecLocate *)

Located == dayResult # Null /\ dayResult.op = "locate"

\* block b is a table inside a sibling that follows an h3 with one of the texts,
\* with no other h3 in between
FollowsHeading(b, texts) ==
    /\ document[b].tag = "div"
    /\ \E j \in 1..(b - 1) :
          /\ document[j].tag = "h3" /\ document[j].text \in texts
          /\ \A i \in (j + 1)..(b - 1) : document[i].tag # "h3"

\* some cell of block j carries one of the markers
CellsMention(j, markers) ==
    \E r \in 1..Len(document[j].rows) : \E c \in 1..Len(document[j].rows[r]) :
        document[j].rows[r][c].markers \cap markers # {}

\* the text of table b, or of a sibling of it, holds the category's substring
NearCategoryText(b, texts, markers) ==
    /\ document[b].tag \in {"table", "div"}
    /\ IF document[b].tag = "div" THEN CellsMention(b, markers)
       ELSE \E j \in 1..Len(document) :
               document[j].text \in texts \/ CellsMention(j, markers)

\* table b has a cell with a time range and a cell that starts with a weekday
HasScheduleShape(b) ==
    /\ document[b].tag \in {"table", "div"}
    /\ \E r \in 1..Len(document[b].rows) : \E c \in 1..Len(document[b].rows[r]) :
          LET cell == document[b].rows[r][c]
          IN  cell.time # Null /\ cell.time.match
    /\ \E r \in 1..Len(document[b].rows) : \E c \in 1..Len(document[b].rows[r]) :
          LET cell == document[b].rows[r][c]
          IN  cell.day # Null /\ WeekdayNumber(cell.day.parts[1]) # 0

Blocks == 1..Len(document)

ExactMatch(category) ==
    {b \in Blocks : FollowsHeading(b, IF category = "lap" THEN {"Lap Swim Hours"}
                                      ELSE {"Rec Swim Hours"})}
FuzzyMatch(category) ==
    {b \in Blocks : FollowsHeading(b, IF category = "lap"
                                      THEN {"Lap Swim Hours", "LAP SWIM HOURS"}
                                      ELSE {"Rec Swim Hours", "Recreational Swim"})}
ProximityMatch(category) ==
    {b \in Blocks :
        IF category = "lap"
        THEN NearCategoryText(b, {"Lap Swim Hours", "LAP SWIM HOURS"}, {"lap swim"})
        ELSE NearCategoryText(b, {"Rec Swim Hours", "Recreational Swim", "Directions"},
                              {"rec swim", "recreational swim"})}
StructuralMatch == {b \in Blocks : HasScheduleShape(b)}

\* the earliest block of the first non-empty match of the list, 0 when all are empty
RECURSIVE FirstHit(_)
FirstHit(matches) ==
    IF matches = <<>> THEN 0
    ELSE IF matches[1] # {}
    THEN CHOOSE b \in matches[1] : \A other \in matches[1] : b <= other
    ELSE FirstHit(Tail(matches))

\* a locator that finds no table gives an empty result and no error
EmptyResultIsNoError ==
    (dayResult # Null /\ dayResult.op = "GET" /\ dayResult.fetched) =>
        /\ dayResult.status = 200
        /\ dayResult.result.error = Null
        /\ (LapSwimTable(document) = 0 /\ RecSwimTable(document) = 0)
              => (page = <<>> /\ dayResult.result.hours = <<>>)

\* C27 as stated: for each category the locator returns the result of the first
\* heuristic that yields a non-empty result, trying exact heading match, fuzzy
\* heading match, proximity match (lap category only) and structural match in
\* this order; when no heuristic yields a table the result is empty and no
\* error is raised.
C27_FirstHeuristicInOrder ==
    /\ Located =>
          /\ dayResult.result.lap
                = FirstHit(<<ExactMatch("lap"), FuzzyMatch("lap"),
                             ProximityMatch("lap"), StructuralMatch>>)
          /\ dayResult.result.rec
                = FirstHit(<<ExactMatch("rec"), FuzzyMatch("rec"), StructuralMatch>>)
    /\ EmptyResultIsNoError

\* C27 as amended: for each category the locator returns the result of the
\* first heuristic that yields a non-empty result, trying exact heading match,
\* fuzzy heading match and proximity match in this order and then, for the lap
\* category only, structural match; when no heuristic yields a table the
\* result is empty and no error is raised.
C27_FirstHeuristicStructuralLapOnly ==
    /\ Located =>
          /\ dayResult.result.lap
                = FirstHit(<<ExactMatch("lap"), FuzzyMatch("lap"),
                             ProximityMatch("lap"), StructuralMatch>>)
          /\ dayResult.result.rec
                = FirstHit(<<ExactMatch("rec"), FuzzyMatch("rec"),
                             ProximityMatch("rec")>>)
    /\ EmptyResultIsNoError

C27_Witness ==
    /\ Located
    /\ document = <<Table(<<GoodRow>>), Titled("h3", "LAP SWIM HOURS"),
                    Wrapped(<<WeekdayRow>>)>>
    /\ dayResult.result.lap = 3
    /\ dayResult.result.rec = 0

----------------------------------------------------------------------------
(* app/components: WeeklyCalendar and DayColumn as CombinedCalendarView     *)
(* renders them.  A slot is [start, end, type]; a day entry of weekData is  *)
(* [date, dayName, hours, error, isToday] with error "" for none; dayIndex   *)
(* counts from 0 as in the source.                                           *)

\* the first slot, in start order, that starts after the current time
FirstAfter(hours, time) ==
    LET sortedSlots == SortByStart(hours)
        later == {k \in 1..Len(sortedSlots) : sortedSlots[k].start > time}
    IN  IF later = {} THEN Null
        ELSE sortedSlots[CHOOSE k \in later : \A j \in later : k <= j]

\* DayColumn: findNextSlot(hours)
findNextSlot(hours, time) ==
    IF hours = Null \/ hours = <<>> THEN Null ELSE FirstAfter(hours, time)

\* WeeklyCalendar: the forEach of findNextOpeningInWeek over the first n days
RECURSIVE NextOpeningAmong(_, _, _)
NextOpeningAmong(weekData, time, n) ==
    IF n = 0 THEN [slot |-> Null, dayIndex |-> -1]
    ELSE LET best == NextOpeningAmong(weekData, time, n - 1)
             dayData == weekData[n]
             dayNextSlot == IF dayData = Null THEN Null
                            ELSE findNextSlot(dayData.hours, time)
         IN  IF /\ dayNextSlot # Null
                /\ (best.slot = Null \/ dayNextSlot.start < best.slot.start)
             THEN [slot |-> dayNextSlot, dayIndex |-> n - 1]
             ELSE best

\* WeeklyCalendar: findNextOpeningInWeek()
findNextOpeningInWeek(weekData, time) ==
    IF weekData = Null \/ weekData = <<>> THEN Null
    ELSE NextOpeningAmong(weekData, time, Len(weekData))

\* DayColumn: isCurrentOrNextSlot(slot), "" for null
isCurrentOrNextSlot(slot, dayData, dayIndex, nextOpeningInfo, time) ==
    IF dayData.isToday /\ time >= slot.start /\ time <= slot.end THEN "current"
    ELSE IF /\ nextOpeningInfo # Null
            /\ nextOpeningInfo.slot # Null
            /\ slot.start = nextOpeningInfo.slot.start
            /\ slot.type = nextOpeningInfo.slot.type
            /\ dayIndex = nextOpeningInfo.dayIndex
    THEN "next"
    ELSE IF /\ dayData.isToday
            /\ LET nextSlot == findNextSlot(dayData.hours, time)
               IN  /\ nextSlot # Null
                   /\ slot.start = nextSlot.start
                   /\ slot.type = nextSlot.type
    THEN "next"
    ELSE ""

\* DayColumn: what one column shows; the error state shows no slot
DayColumn(dayData, time, isCurrentWeek, error, nextOpeningInfo, dayIndex) ==
    IF error # ""
    THEN [state |-> "error", dayData |-> dayData, dayIndex |-> dayIndex, slots |-> <<>>]
    ELSE [state |-> "day", dayData |-> dayData, dayIndex |-> dayIndex,
          slots |-> [k \in 1..Len(dayData.hours) |->
                        [slot |-> dayData.hours[k],
                         status |-> isCurrentOrNextSlot(dayData.hours[k], dayData,
                                                        dayIndex, nextOpeningInfo, time)]]]

\* variant: the placeholder carries no error
Placeholder_NoError(i) ==
    [date |-> Null, dayName |-> DayNames[i + 1], hours |-> <<>>,
     error |-> "", isToday |-> FALSE]

\* WeeklyCalendar: the placeholder pushed for a missing day
Placeholder(i) ==
    [date |-> Null, dayName |-> DayNames[i + 1], hours |-> <<>>,
     error |-> "No data available", isToday |-> FALSE]

\* WeeklyCalendar: fullWeekData after the loop for (i = 0; i < 7; i++)
fullWeekData(weekData) ==
    [n \in 1..7 |->
        IF weekData # Null /\ n <= Len(weekData) /\ weekData[n] # Null
        THEN weekData[n] ELSE Placeholder(n - 1)]

\* days.map((dayData, index) => <DayColumn ... dayIndex={index + offset} />)
Columns(days, offset, time, isCurrentWeek, nextOpeningInfo) ==
    [k \in 1..Len(days) |->
        DayColumn(days[k], time, isCurrentWeek, days[k].error, nextOpeningInfo,
                  k - 1 + offset)]

\* WeeklyCalendar: what it returns; the three responsive layouts are all in
\* the DOM and the style sheet shows one of them at any width
WeeklyCalendar(weekData, time, isCurrentWeek, loading, error) ==
    IF loading
    THEN [state |-> "loading", mobile |-> <<>>, tablet |-> <<>>, desktop |-> <<>>]
    ELSE IF error # "" /\ (weekData = Null \/ weekData = <<>>)
    THEN [state |-> "error", mobile |-> <<>>, tablet |-> <<>>, desktop |-> <<>>]
    ELSE LET nextOpeningInfo == findNextOpeningInWeek(weekData, time)
             full == fullWeekData(weekData)
         IN  [state |-> "week",
              mobile |-> Columns(full, 0, time, isCurrentWeek, nextOpeningInfo),
              tablet |-> Columns(SubSeq(full, 1, 4), 0, time, isCurrentWeek,
                                 nextOpeningInfo)
                         \o Columns(SubSeq(full, 5, 7), 4, time, isCurrentWeek,
                                    nextOpeningInfo),
              desktop |-> Columns(full, 0, time, isCurrentWeek, nextOpeningInfo)]

\* CombinedCalendarView: the future slots of the days from..Len(weekData) of a week
RECURSIVE FutureSlots(_, _, _, _)
FutureSlots(weekData, weekOffsetOfWeek, time, from) ==
    IF from > Len(weekData) THEN <<>>
    ELSE LET dayData == weekData[from]
             ofDay == IF dayData = Null \/ dayData.hours = Null THEN <<>>
                      ELSE SelectSeq([k \in 1..Len(dayData.hours) |->
                                         [start |-> dayData.hours[k].start,
                                          end |-> dayData.hours[k].end,
                                          type |-> dayData.hours[k].type,
                                          weekOffset |-> weekOffsetOfWeek,
                                          dayIndex |-> from - 1]],
                                     LAMBDA slot : slot.start > time)
         IN  ofDay \o FutureSlots(weekData, weekOffsetOfWeek, time, from + 1)

\* allSlots.reduce((earliest, current) => current.start < earliest.start ? ...)
RECURSIVE Earliest(_)
Earliest(allSlots) ==
    IF Len(allSlots) = 1 THEN allSlots[1]
    ELSE LET earliest == Earliest(SubSeq(allSlots, 1, Len(allSlots) - 1))
             current == allSlots[Len(allSlots)]
         IN  IF current.start < earliest.start THEN current ELSE earliest

\* CombinedCalendarView: findGlobalNextOpening()
findGlobalNextOpening(thisWeek, nextWeek, time) ==
    IF \/ thisWeek = Null \/ thisWeek.weekData = Null
       \/ nextWeek = Null \/ nextWeek.weekData = Null
    THEN Null
    ELSE LET allSlots == FutureSlots(thisWeek.weekData, 0, time, 1)
                         \o FutureSlots(nextWeek.weekData, 1, time, 1)
         IN  IF allSlots = <<>> THEN Null
             ELSE LET earliestSlot == Earliest(allSlots)
                  IN  [slot |-> earliestSlot, weekOffset |-> earliestSlot.weekOffset,
                       dayIndex |-> earliestSlot.dayIndex]

\* weekData={thisWeekData?.weekData}; the default [] stands in for undefined
WeekDataProp(data) == IF data = Null THEN <<>> ELSE data.weekData

\* CombinedCalendarView: what its two WeeklyCalendars show.  The prop
\* globalNextOpening is handed to both, and WeeklyCalendar does not read it.
RenderCalendars(data, loading, error, time) ==
    [thisWeek |-> WeeklyCalendar(WeekDataProp(data["thisWeek"]), time, TRUE,
                                 loading["thisWeek"], error["thisWeek"]),
     nextWeek |-> WeeklyCalendar(WeekDataProp(data["nextWeek"]), time, FALSE,
                                 loading["nextWeek"], error["nextWeek"]),
     globalNextOpening |-> findGlobalNextOpening(data["thisWeek"], data["nextWeek"],
                                                 time)]

----------------------------------------------------------------------------
(* The calendars as a state machine: the parent hands the week bodies and   *)
(* the current time down, the calendars render, and the clock of the parent *)
(* moves on.  The fetches that brought the bodies are not followed here.    *)

\* 2024-01-15, the Monday of the week on show
CalendarMonday == 14

\* a two-hour session that starts at a full hour of the site's wall clock
SlotAt(day, hour, type) ==
    [start |-> FromLocal(SiteTimezone, day * MinutesPerDay + hour * 60),
     end |-> FromLocal(SiteTimezone, day * MinutesPerDay + (hour + 2) * 60),
     type |-> type]

DayChoices == {"none", "am", "ampm", "error"}

\* one entry of weekData as the week endpoint builds it
DayEntry(day, choice, isToday) ==
    [date |-> FormatDate(day), dayName |-> FormatDayName(day),
     hours |-> IF choice = "am" THEN <<SlotAt(day, 9, "lap")>>
               ELSE IF choice = "ampm"
               THEN <<SlotAt(day, 9, "lap"), SlotAt(day, 14, "recreational")>>
               ELSE <<>>,
     error |-> IF choice = "error" THEN "Failed to fetch pool hours" ELSE "",
     isToday |-> isToday]

\* the week at an offset with sessions on two of its days; today is day
\* todayIndex of week 0
WeekEntries(offset, todayIndex, a, choiceA, b, choiceB) ==
    [n \in 1..7 |->
        DayEntry(CalendarMonday + 7 * offset + n - 1,
                 IF n - 1 = a THEN choiceA ELSE IF n - 1 = b THEN choiceB ELSE "none",
                 offset = 0 /\ n - 1 = todayIndex)]

TodayIndexes == {0, 6}

\* the bodies the week endpoint may have answered for this week: whole weeks,
\* weeks cut short, and a body whose weekData is null
ThisWeekBodies(todayIndex) ==
    LET a == todayIndex
        b == IF todayIndex < 6 THEN todayIndex + 1 ELSE todayIndex - 1
    IN  {[weekData |-> WeekEntries(0, todayIndex, a, choiceA, b, choiceB)] :
             choiceA \in DayChoices, choiceB \in DayChoices}
        \cup {[weekData |-> SubSeq(WeekEntries(0, todayIndex, a, "am", b, "ampm"), 1, n)] :
                 n \in 0..6}
        \cup {[weekData |-> Null]}

NextWeekBodies(todayIndex) ==
    {[weekData |-> WeekEntries(1, todayIndex, 0, choiceA, 1, "am")] :
        choiceA \in DayChoices \ {"error"}}
    \cup {[weekData |-> <<>>]}

\* the instants the clock of the parent shows during today: 10:00, 12:00, 20:00
ClockHours == <<10, 12, 20>>
ClockAt(todayIndex, k) ==
    FromLocal(SiteTimezone,
              (CalendarMonday + todayIndex) * MinutesPerDay + ClockHours[k] * 60)

\* the message of new Error(`HTTP ${response.status}: ${response.statusText}`)
HttpError == "HTTP 500: Internal Server Error"

WeekSections == {"thisWeek", "nextWeek"}

InitCalendar ==
    /\ now = 0
    /\ clientTimezone = SiteTimezone
    /\ weekOffset = 0
    /\ importOk = TRUE
    /\ page = PageEmpty
    /\ failCode = "ECONNREFUSED"
    /\ dayOut = [i \in DayIndexes |-> Null]
    /\ dayPromises = [i \in DayIndexes |-> Null]
    /\ response = Null
    /\ dayResult = Null
    /\ document = Null
    /\ ToggleIdle
    /\ \E todayIndex \in TodayIndexes :
         /\ currentTime = ClockAt(todayIndex, 1)
         /\ \E thisWeek \in ThisWeekBodies(todayIndex) \cup {Null},
               nextWeek \in NextWeekBodies(todayIndex) \cup {Null} :
              sectionData = [s \in Sections |->
                                IF s = "thisWeek" THEN thisWeek
                                ELSE IF s = "nextWeek" THEN nextWeek ELSE Null]
    /\ \E loading \in SUBSET WeekSections, failed \in SUBSET WeekSections :
         /\ sectionLoading = [s \in Sections |-> s \notin WeekSections \/ s \in loading]
         /\ sectionError = [s \in Sections |-> IF s \in failed THEN HttpError ELSE ""]
    /\ inFlight = {}
    /\ issued = 0
    /\ settled = {}
    /\ mounted = "CombinedCalendarView"
    /\ rendered = Null

\* CombinedCalendarView renders its two calendars
RenderCombined ==
    /\ rendered = Null
    /\ rendered' = RenderCalendars(sectionData, sectionLoading, sectionError, currentTime)
    /\ UNCHANGED <<serverVars, toggleVars, currentTime, sectionData, sectionLoading,
                   sectionError, inFlight, issued, settled, mounted>>

\* the parent passes a later currentTime and the calendars render again
Tick ==
    /\ rendered # Null
    /\ \E todayIndex \in TodayIndexes, k \in 1..(Len(ClockHours) - 1) :
         /\ currentTime = ClockAt(todayIndex, k)
         /\ currentTime' = ClockAt(todayIndex, k + 1)
    /\ rendered' = RenderCalendars(sectionData, sectionLoading, sectionError, currentTime')
    /\ UNCHANGED <<serverVars, toggleVars, sectionData, sectionLoading,
                   sectionError, inFlight, issued, settled, mounted>>

NextCalendar ==
    \/ RenderCombined
    \/ Tick

SpecCalendar == InitCalendar /\ [][NextCalendar]_vars

----------------------------------------------------------------------------
(* Properties of the calendars, checked under SpecCalendar *)

\* the columns of a layout of a rendered calendar
LayoutsOf(calendar) == {calendar.mobile, calendar.tablet, calendar.desktop}

\* whether WeeklyCalendar gets past its loading and whole-week error returns
ShowsWeek(s) ==
    /\ ~sectionLoading[s]
    /\ ~(sectionError[s] # "" /\ WeekDataProp(sectionData[s]) \in {Null, <<>>})

\* whether weekData holds an entry at position n
HasEntry(weekData, n) == weekData # Null /\ n <= Len(weekData) /\ weekData[n] # Null

ShownSlots ==
    IF rendered = Null THEN {}
    ELSE UNION {UNION {{[section |-> s, column |-> n,
                         isToday |-> rendered[s].desktop[n].dayData.isToday,
                         slot |-> rendered[s].desktop[n].slots[k].slot,
                         status |-> rendered[s].desktop[n].slots[k].status] :
                           k \in 1..Len(rendered[s].desktop[n].slots)} :
                       n \in 1..7} :
                   s \in {s \in WeekSections : rendered[s].state = "week"}}

\* C22: a slot is labelled current or next only when its day is today and its
\* week is the current week: no slot of another day and no slot of next week
\* carries a label.
C22_LabelsOnlyTodayThisWeek ==
    \A shown \in ShownSlots :
        shown.status # "" => shown.isToday /\ shown.section = "thisWeek"

\* the slots on show that start after the current time
FutureShownSlots == {shown \in ShownSlots : shown.slot.start > currentTime}

\* C23: NEXT is on the earliest slot on show, of either week, that starts
\* after the current time, and on no slot that starts later than that one.
C23_NextIsEarliestFutureSlotShown ==
    \A earliest \in FutureShownSlots :
        (\A other \in FutureShownSlots : earliest.slot.start <= other.slot.start) =>
            /\ earliest.status = "next"
            /\ \A shown \in ShownSlots :
                 shown.status = "next" => shown.slot.start <= earliest.slot.start

----------------------------------------------------------------------------
(* app/components: the fetches of CombinedCalendarView (fetchTodayData,     *)
(* fetchWeeklyData) and of DailyView (fetchPoolHours).  A fetch is          *)
(* [section, n]: the section it loads and its number in the order of issue. *)
(* Nothing orders the responses: a fetch in flight settles at any time.     *)

Components == {"CombinedCalendarView", "DailyView"}

\* the sections a component loads, in the order its effect calls the fetches
SectionsOf(component) ==
    IF component = "CombinedCalendarView" THEN <<"today", "thisWeek", "nextWeek">>
    ELSE <<"daily">>

\* how a fetch can fail: a response that is not ok, or a rejected fetch()
FailureKinds == {"http", "network"}

\* await response.json() of the response to a fetch: each request is answered
\* with the body the server built for it
ResultOf(fetch) == [section |-> fetch.section, request |-> fetch.n]

\* the message the catch block (DailyView: also the else branch) hands to setError
ErrorMessage(section, kind) ==
    IF section = "daily"
    THEN (IF kind = "http" THEN "Failed to fetch pool hours"
          ELSE "Network error: Unable to connect to the server")
    ELSE (IF kind = "http" THEN HttpError ELSE "Failed to fetch")

\* variant: setError of every section
SetError_EverySection(error, section, message) == [s \in Sections |-> message]

\* setError(message) of a section
SetError(error, section, message) == [error EXCEPT ![section] = message]

\* the fetches a run of the effect or of the interval callback issues
Issued(sections) ==
    {[section |-> sections[k], n |-> issued + k] : k \in 1..Len(sections)}

\* the part of the fetch functions before the first await, for each of the
\* sections: setLoading(true) and, in CombinedCalendarView, setError(null)
StartFetches(sections) ==
    /\ issued + Len(sections) <= MaxFetches
    /\ inFlight' = inFlight \cup Issued(sections)
    /\ issued' = issued + Len(sections)
    /\ sectionLoading' = [s \in Sections |->
                             (\E k \in 1..Len(sections) : sections[k] = s)
                             \/ sectionLoading[s]]
    /\ sectionError' = [s \in Sections |->
                           IF s # "daily" /\ \E k \in 1..Len(sections) : sections[k] = s
                           THEN "" ELSE sectionError[s]]
    /\ UNCHANGED <<serverVars, toggleVars, currentTime, sectionData, settled,
                   mounted, rendered>>

InitFetch ==
    /\ now = 0
    /\ clientTimezone = SiteTimezone
    /\ weekOffset = 0
    /\ importOk = TRUE
    /\ page = PageEmpty
    /\ failCode = "ECONNREFUSED"
    /\ dayOut = [i \in DayIndexes |-> Null]
    /\ dayPromises = [i \in DayIndexes |-> Null]
    /\ response = Null
    /\ dayResult = Null
    /\ document = Null
    /\ ToggleIdle
    /\ currentTime = 0
    /\ sectionData = [s \in Sections |-> Null]
    /\ sectionLoading = [s \in Sections |-> TRUE]
    /\ sectionError = [s \in Sections |-> ""]
    /\ inFlight = {}
    /\ issued = 0
    /\ settled = {}
    /\ mounted \in Components
    /\ rendered = Null

\* useEffect(() => { fetch...() }, []) after the first render
InitialFetch ==
    /\ issued = 0
    /\ StartFetches(SectionsOf(mounted))

\* the callback of setInterval(..., 5 * 60 * 1000)
AutoRefresh ==
    /\ issued > 0
    /\ StartFetches(SectionsOf(mounted))

\* the refresh button of TodayHighlight's error state: onRefresh={fetchTodayData}
Refresh ==
    /\ mounted = "CombinedCalendarView"
    /\ issued > 0
    /\ ~sectionLoading["today"]
    /\ sectionError["today"] # ""
    /\ StartFetches(<<"today">>)

\* a fetch in flight is answered with an ok response: setData(data), in
\* DailyView also setError(null), and finally setLoading(false)
FetchSucceeds(fetch) ==
    /\ fetch \in inFlight
    /\ inFlight' = inFlight \ {fetch}
    /\ settled' = settled \cup {[section |-> fetch.section, n |-> fetch.n, ok |-> TRUE]}
    /\ sectionData' = [sectionData EXCEPT ![fetch.section] = ResultOf(fetch)]
    /\ sectionError' = IF fetch.section = "daily"
                       THEN SetError(sectionError, fetch.section, "")
                       ELSE sectionError
    /\ sectionLoading' = [sectionLoading EXCEPT ![fetch.section] = FALSE]
    /\ UNCHANGED <<serverVars, toggleVars, currentTime, issued, mounted, rendered>>

\* a fetch in flight fails: setError(message) and finally setLoading(false)
FetchFails(fetch, kind) ==
    /\ fetch \in inFlight
    /\ inFlight' = inFlight \ {fetch}
    /\ settled' = settled \cup {[section |-> fetch.section, n |-> fetch.n, ok |-> FALSE]}
    /\ sectionError' = SetError(sectionError, fetch.section,
                                ErrorMessage(fetch.section, kind))
    /\ sectionLoading' = [sectionLoading EXCEPT ![fetch.section] = FALSE]
    /\ UNCHANGED <<serverVars, toggleVars, currentTime, sectionData, issued,
                   mounted, rendered>>

NextFetch ==
    \/ InitialFetch
    \/ AutoRefresh
    \/ Refresh
    \/ \E fetch \in inFlight : FetchSucceeds(fetch)
    \/ \E fetch \in inFlight, kind \in FailureKinds : FetchFails(fetch, kind)

SpecFetch == InitFetch /\ [][NextFetch]_vars

----------------------------------------------------------------------------
(* Properties of the fetches, checked under SpecFetch *)

\* whether a fetch that leaves inFlight in this step was answered with ok
SettlesOk(fetch) ==
    [section |-> fetch.section, n |-> fetch.n, ok |-> TRUE] \in settled'

\* C24: the sections are independent: when a fetch of one section settles,
\* with success or with failure, the data, the loading flag and the error of
\* every other section stay as they are; and the section of a fetch that
\* succeeded holds that fetch's data and has stopped loading, whatever
\* happened to the fetches of the other sections.
C24_SectionsAreIndependent ==
    [][\A fetch \in inFlight \ inFlight' :
          /\ \A s \in Sections \ {fetch.section} :
               /\ sectionData'[s] = sectionData[s]
               /\ sectionLoading'[s] = sectionLoading[s]
               /\ sectionError'[s] = sectionError[s]
          /\ SettlesOk(fetch) =>
               /\ sectionData'[fetch.section] = ResultOf(fetch)
               /\ ~sectionLoading'[fetch.section]]_vars

\* C24 witness: today's fetch succeeded and shows its data while this week's
\* fetch failed and shows its error
C24_Witness ==
    /\ mounted = "CombinedCalendarView"
    /\ sectionData["today"] = ResultOf([section |-> "today", n |-> 1])
    /\ ~sectionLoading["today"]
    /\ sectionError["today"] = ""
    /\ sectionData["thisWeek"] = Null
    /\ ~sectionLoading["thisWeek"]
    /\ sectionError["thisWeek"] = HttpError
    /\ [section |-> "thisWeek", n |-> 2, ok |-> FALSE] \in settled

\* the settled fetches of a section
SettledOf(s) == {fetch \in settled : fetch.section = s}

\* C29: once no fetch of a section is in flight any more, the section shows
\* the result of the fetch of that section that was issued last (given that
\* it succeeded), in whatever order the responses arrived.
C29_ShowsLastIssuedFetch ==
    \A s \in Sections :
        (SettledOf(s) # {} /\ ~\E fetch \in inFlight : fetch.section = s) =>
            LET last == CHOOSE fetch \in SettledOf(s) :
                            \A other \in SettledOf(s) : other.n <= fetch.n
            IN  last.ok =>
                    sectionData[s] = ResultOf([section |-> s, n |-> last.n])

\* C30: a fetch that fails changes only the error and the loading flag of its
\* section: the data of every section stay as they are; the loading flag is
\* false once a fetch has ended; and a fetch that succeeds leaves the section
\* without an error.
C30_FailureKeepsDataSuccessClearsError ==
    [][\A fetch \in inFlight \ inFlight' :
          /\ ~sectionLoading'[fetch.section]
          /\ ~SettlesOk(fetch) => sectionData' = sectionData
          /\ SettlesOk(fetch) => sectionError'[fetch.section] = ""]_vars

====
